---- MODULE Spec2Model ----
(***************************************************************************)
(* Simulation overlap ledger of the lakes backend.                         *)
(*                                                                         *)
(* State: the persisted rows (lake grid, one simulation, its subdivisions, *)
(* its runs) and, per request, the ORM session that serves it: the         *)
(* Simulation object it loaded, the lazily loaded sim.subdivisions         *)
(* collection, what it has staged or flushed, and where it is in the       *)
(* handler.  The only steps of a handler that touch the persisted rows are *)
(* its reads (loading the simulation, lazy-loading the collection, reading *)
(* the lake) and db.commit().                                              *)
(***************************************************************************)
EXTENDS Integers, Sequences, FiniteSets, TLC

\* Python's None.  Every value that may be None is a record in this model
\* (ids are UUID records), so that comparing it with None is defined.
None == [none |-> TRUE]
UUID(n) == [uuid |-> n]

\* ------------------------------------------------------------------ bounds
Requests == {1, 2}
Users == {UUID(11), UUID(12)}
DatasetVersions == {UUID(21), UUID(22)}
\* who creates the simulation, and the dataset versions it is created with
\* (None resolves to the lake's active version)
Creators == {UUID(11)}
CreateVersions == {None, UUID(21)}
\* number of distinct subdivision ids (uuid4 values) that can be live at once
MaxIds == 3
\* number of calls that may begin while another call is in flight
MaxOverlaps == 1
\* number of simulation_runs rows the model lets create_run insert
MaxRuns == 1

\* direct calls of the bitset functions: masks of every shape with at most
\* MaxCells cells, byte strings of at most MaxBytes bytes over SampleBytes
\* (both code lengths of the deflate literals, and their boundaries)
MaxCells == 9
MaxBytes == 3
SampleBytes == {0, 1, 143, 144, 255}

\* app/simulations/services.py:18 sets 100; the model scales the capacity so
\* that a full simulation fits in the grids below.
MAX_SUBDIVISIONS == 3

\* Lake grids (grid_rows, grid_cols): 4 cells pack into 1 byte, 9 into 2.
Grids == {<<2, 2>>, <<3, 3>>}

\* A geometry is given by the grid cells <<row, col>> its interior covers.
Geometries ==
  { {<<0, 0>>}, {<<0, 1>>}, {<<0, 0>>, <<0, 1>>}, {<<1, 1>>}, {<<2, 2>>} }

\* Constraint layers of every dataset version: on the grid of two rows cell
\* <<1, 1>> is water and has the nodata value in the inhabitants layer; on
\* the finer grid the cell is inhabited and neither water nor nodata.
WaterCells == {<<1, 1>>}
InhabitedCells == {<<1, 1>>}
NoDataCells == {<<1, 1>>}

\* --------------------------------------------------------------- bit level
BitsOf(x) == {k \in 0..7 : (x \div (2 ^ k)) % 2 = 1}

RECURSIVE ByteFromBits(_)
ByteFromBits(S) ==
  IF S = {} THEN 0
  ELSE LET k == CHOOSE e \in S : TRUE
       IN  (2 ^ k) + ByteFromBits(S \ {k})

ByteOr(x, y) == ByteFromBits(BitsOf(x) \cup BitsOf(y))
ByteAnd(x, y) == ByteFromBits(BitsOf(x) \cap BitsOf(y))
\* bin(x).count("1")
BitCount(x) == Cardinality(BitsOf(x))

RECURSIVE SumSeq(_)
SumSeq(s) == IF s = <<>> THEN 0 ELSE Head(s) + SumSeq(Tail(s))

\* number of set bits of a raw bitset
PopCount(raw) == SumSeq([i \in 1..Len(raw) |-> BitCount(raw[i])])

\* the cells (0-based linear indices) set in a raw bitset
CellsOf(raw) ==
  {c \in 0..(8 * Len(raw) - 1) : (c % 8) \in BitsOf(raw[(c \div 8) + 1])}

\* A mask is a boolean array of shape (rows, cols), given by its shape and
\* the set of cells <<r, c>> that are True.
Mask(rows, cols, cells) == [rows |-> rows, cols |-> cols, cells |-> cells]

\* mask.reshape(-1): cell <<r, c>> is element r * cols + c of the flat array
Flat(mask) ==
  [i \in 1..(mask.rows * mask.cols) |->
     IF <<(i - 1) \div mask.cols, (i - 1) % mask.cols>> \in mask.cells
     THEN 1 ELSE 0]

\* variant: a final byte that is not full is dropped
packbits_little_WholeBytes(bits) ==
  [j \in 1..(Len(bits) \div 8) |->
     SumSeq([k \in 1..8 |-> bits[8 * (j - 1) + k] * (2 ^ (k - 1))])]

\* np.packbits(bits, bitorder="little"): element 8 * j + k of the array is bit
\* k of byte j; the last byte is filled with zero bits
packbits_little(bits) ==
  [j \in 1..((Len(bits) + 7) \div 8) |->
     SumSeq([k \in 1..8 |-> IF 8 * (j - 1) + k <= Len(bits)
                            THEN bits[8 * (j - 1) + k] * (2 ^ (k - 1))
                            ELSE 0])]

\* np.unpackbits(packed, bitorder="little")
unpackbits_little(packed) ==
  [i \in 1..(8 * Len(packed)) |->
     (packed[((i - 1) \div 8) + 1] \div (2 ^ ((i - 1) % 8))) % 2]

\* variant: the bits of a byte are packed most significant first
mask_to_bitset_bytes_BigEndian(mask) ==
  LET bits == Flat(mask)
  IN  [j \in 1..((Len(bits) + 7) \div 8) |->
         SumSeq([k \in 1..8 |-> IF 8 * (j - 1) + k <= Len(bits)
                                THEN bits[8 * (j - 1) + k] * (2 ^ (8 - k))
                                ELSE 0])]

mask_to_bitset_bytes(mask) == packbits_little(Flat(mask))

Raised(code) == [raised |-> TRUE, code |-> code]
Value(v) == [raised |-> FALSE, value |-> v]

\* the first n_bits unpacked bits reshaped to (rows, cols); reshape raises
\* when fewer than rows * cols bits are there
bitset_bytes_to_mask(bitset_bytes, rows, cols) ==
  LET n_bits == rows * cols
      bits == unpackbits_little(bitset_bytes)
  IN  IF Len(bits) < n_bits THEN Raised("ValueError")
      ELSE Value(Mask(rows, cols,
                      {<<i \div cols, i % cols>> :
                         i \in {x \in 0..(n_bits - 1) : bits[x + 1] = 1}}))

\* ------------------------------------------------------------ zlib, base64
\* the bits of x on w bits, most significant first, and back
MsbBits(x, w) == [i \in 1..w |-> (x \div (2 ^ (w - i))) % 2]
MsbValue(bits) ==
  SumSeq([i \in 1..Len(bits) |-> bits[i] * (2 ^ (Len(bits) - i))])

RECURSIVE Concat(_)
Concat(ss) == IF ss = <<>> THEN <<>> ELSE Head(ss) \o Concat(Tail(ss))

\* longest input for which the deflate stream below is the one zlib writes:
\* up to this length zlib finds no match and emits literals only
MaxLiteralRun == 4

\* the fixed Huffman code of a literal byte (RFC 1951, 3.2.6)
FixedLiteralCode(v) ==
  IF v < 144 THEN MsbBits(48 + v, 8) ELSE MsbBits(400 + (v - 144), 9)

\* deflate of a short input: one final block with fixed Huffman codes
\* (BFINAL = 1, BTYPE = 01), the literals, the end-of-block code
DeflateBits(data) ==
  <<1, 1, 0>> \o Concat([i \in 1..Len(data) |-> FixedLiteralCode(data[i])])
              \o <<0, 0, 0, 0, 0, 0, 0>>

\* Adler-32 of the data (RFC 1950, 8.2)
Adler32(data) ==
  LET A(n) == (1 + SumSeq(SubSeq(data, 1, n))) % 65521
      B == SumSeq([n \in 1..Len(data) |-> A(n)]) % 65521
  IN  <<B \div 256, B % 256, A(Len(data)) \div 256, A(Len(data)) % 256>>

\* FLEVEL of the zlib header for a compression level (deflate.c deflate())
FLevel(level) ==
  IF level < 2 THEN 0 ELSE IF level < 6 THEN 1 ELSE IF level = 6 THEN 2 ELSE 3

\* zlib.compress(data, level): CMF 0x78, FLG with FLEVEL and the check bits
\* that make CMF * 256 + FLG a multiple of 31, the deflate stream packed
\* least significant bit first, the Adler-32 of the data
zlib_compress(data, level) ==
  LET flg == FLevel(level) * 64
      fcheck == (31 - ((120 * 256 + flg) % 31)) % 31
  IN  <<120, flg + fcheck>> \o packbits_little(DeflateBits(data)) \o Adler32(data)

\* inflate of one final fixed Huffman block of literals, from bit pos on
RECURSIVE InflateLiterals(_, _, _)
InflateLiterals(bits, pos, out) ==
  IF pos + 6 > Len(bits) THEN Raised("zlib.error")
  ELSE LET c7 == MsbValue(SubSeq(bits, pos, pos + 6))
       IN  IF c7 = 0 THEN Value(out)
           ELSE IF c7 >= 24 /\ c7 <= 95
           THEN IF pos + 7 > Len(bits) THEN Raised("zlib.error")
                ELSE InflateLiterals(bits, pos + 8,
                       Append(out, 2 * c7 + bits[pos + 7] - 48))
           ELSE IF c7 >= 100
           THEN IF pos + 8 > Len(bits) THEN Raised("zlib.error")
                ELSE InflateLiterals(bits, pos + 9,
                       Append(out, 4 * c7 + 2 * bits[pos + 7] + bits[pos + 8]
                                   - 400 + 144))
           ELSE Raised("zlib.error")

\* zlib.decompress(z) of a stream zlib_compress writes: header check, the
\* block, the Adler-32 check.  Streams with stored or dynamic blocks or with
\* length codes are outside this model and raise.
zlib_decompress(z) ==
  IF Len(z) < 6 \/ z[1] # 120 \/ (z[1] * 256 + z[2]) % 31 # 0
     \/ (z[2] \div 32) % 2 # 0
  THEN Raised("zlib.error")
  ELSE LET bits == unpackbits_little(SubSeq(z, 3, Len(z) - 4))
           data == IF Len(bits) < 3 \/ SubSeq(bits, 1, 3) # <<1, 1, 0>>
                   THEN Raised("zlib.error")
                   ELSE InflateLiterals(bits, 4, <<>>)
       IN  IF data.raised THEN data
           ELSE IF Adler32(data.value) # SubSeq(z, Len(z) - 3, Len(z))
           THEN Raised("zlib.error")
           ELSE data

\* base64 text is the sequence of its characters, each given by its index in
\* the alphabet A-Z a-z 0-9 + / (0..63); 64 is the padding character "="
b64encode(bytes) ==
  LET n == Len(bytes)
      At(i) == IF i <= n THEN bytes[i] ELSE 0
      Group(g) == At(3 * g - 2) * 65536 + At(3 * g - 1) * 256 + At(3 * g)
  IN  [i \in 1..(4 * ((n + 2) \div 3)) |->
         LET g == (i + 3) \div 4
             k == (i - 1) % 4
         IN  IF k = 2 /\ 3 * g - 1 > n THEN 64
             ELSE IF k = 3 /\ 3 * g > n THEN 64
             ELSE (Group(g) \div (64 ^ (3 - k))) % 64]

b64decode(text) ==
  LET n == Len(text)
      pad == Cardinality({i \in 1..n : text[i] = 64})
      Six(i) == IF text[i] = 64 THEN 0 ELSE text[i]
      Group(g) == Six(4 * g - 3) * 262144 + Six(4 * g - 2) * 4096
                  + Six(4 * g - 1) * 64 + Six(4 * g)
  IN  IF n % 4 # 0 \/ pad > 2 \/ \E i \in 1..(n - pad) : text[i] = 64
      THEN Raised("binascii.Error")
      ELSE Value([j \in 1..(3 * (n \div 4) - pad) |->
                    LET g == (j + 2) \div 3
                        k == (j - 1) % 3
                    IN  (Group(g) \div (256 ^ (2 - k))) % 256])

\* a Python str: the sequence of its characters.  A str is a record so that
\* comparing it with None is defined.
Str(chars) == [chars |-> chars]

\* variant: the text carries the bytes without their last one
encode_bitset_zlib_base64_Truncating(bitset_bytes, level) ==
  Str(b64encode(zlib_compress(SubSeq(bitset_bytes, 1, Len(bitset_bytes) - 1), level)))

encode_bitset_zlib_base64(bitset_bytes, level) ==
  Str(b64encode(zlib_compress(bitset_bytes, level)))

\* a text that does not decode raises; no step of the model goes on with it
decode_bitset_zlib_base64(b64) ==
  zlib_decompress(b64decode(b64.chars).value).value

\* zlib and base64 are functions of their input.  For the bitsets of the lake
\* grids the model computes the texts and their decodings once, with the
\* operators above, and the ledger reads them from these tables.
CompressionLevels == {6, 9}
GridBitsets ==
  UNION {{mask_to_bitset_bytes(Mask(g[1], g[2], c)) :
            c \in SUBSET ((0..(g[1] - 1)) \X (0..(g[2] - 1)))} : g \in Grids}
EncodedBitsets ==
  [raw \in GridBitsets, level \in CompressionLevels |->
     encode_bitset_zlib_base64(raw, level)]
DecodedBitsets ==
  [b64 \in {EncodedBitsets[x] : x \in DOMAIN EncodedBitsets} |->
     decode_bitset_zlib_base64(b64)]

mask_to_encoded_bitset(mask, level) ==
  EncodedBitsets[mask_to_bitset_bytes(mask), level]

_decode_bitset(bitset_b64) == DecodedBitsets[bitset_b64]
_encode_bitset(raw) == EncodedBitsets[raw, 6]

\* variant: the shorter operand is padded with zero bytes instead of raising
_bitset_or_Padding(a, b) ==
  LET ba == _decode_bitset(a)
      bb == _decode_bitset(b)
      n == IF Len(ba) >= Len(bb) THEN Len(ba) ELSE Len(bb)
      At(x, i) == IF i <= Len(x) THEN x[i] ELSE 0
  IN  Value(_encode_bitset([i \in 1..n |-> ByteOr(At(ba, i), At(bb, i))]))

_bitset_or(a, b) ==
  LET ba == _decode_bitset(a)
      bb == _decode_bitset(b)
  IN  IF Len(ba) # Len(bb) THEN Raised("BITSET_DIMENSION_MISMATCH")
      ELSE Value(_encode_bitset([i \in 1..Len(ba) |-> ByteOr(ba[i], bb[i])]))

\* variant: only the first byte is compared
_bitset_intersects_FirstByte(a, b) ==
  LET ba == _decode_bitset(a)
      bb == _decode_bitset(b)
  IN  IF Len(ba) # Len(bb) THEN Raised("BITSET_DIMENSION_MISMATCH")
      ELSE Value(BitCount(ByteAnd(ba[1], bb[1])))

_bitset_intersects(a, b) ==
  LET ba == _decode_bitset(a)
      bb == _decode_bitset(b)
  IN  IF Len(ba) # Len(bb) THEN Raised("BITSET_DIMENSION_MISMATCH")
      ELSE Value(SumSeq([i \in 1..Len(ba) |-> BitCount(ByteAnd(ba[i], bb[i]))]))


\* ------------------------------------------------------- lakes repository
\* The lakes tables and the layer rasters, as the repository functions see
\* them (one lake):
\*   lake      None, or the lakes row: grid_rows, grid_cols, crs,
\*             origin_corner, active_dv (id of its ACTIVE dataset version)
\*   datasets  ids of the dataset versions of the lake
\*   layers    per dataset version and layer kind: None, or the layer row
\*             with the array read from its raster
\*   revision  number of times a layer raster has been replaced
LakeCrs == "EPSG:32719"
KnownCrs == {"EPSG:32719", "EPSG:4326"}

Cells(rows, cols) == (0..(rows - 1)) \X (0..(cols - 1))

\* a nodata value that is set
NoData(v) == [value |-> v]
\* a layers row with the array of its raster: data[<<r, c>>] for the cells of
\* shape (rows, cols)
Layer(rows, cols, data, nodata) ==
  [rows |-> rows, cols |-> cols, data |-> data, nodata |-> nodata]

get_lake(tables) ==
  IF tables.lake = None THEN Raised("LAKE_NOT_FOUND") ELSE Value(tables.lake)

get_active_dataset_version(tables) ==
  IF tables.lake.active_dv \in tables.datasets THEN tables.lake.active_dv ELSE None

resolve_dataset_version(tables, dataset_version_id) ==
  IF dataset_version_id = None
  THEN LET dv == get_active_dataset_version(tables)
       IN  IF dv = None THEN Raised("DATASET_NOT_FOUND") ELSE Value(dv)
  ELSE IF dataset_version_id \in tables.datasets
  THEN Value(dataset_version_id)
  ELSE Raised("DATASET_NOT_FOUND")

LayerKinds == {"water", "inhabitants"}

get_layer(tables, dataset_version_id, layer_kind_api) ==
  IF layer_kind_api \notin LayerKinds \cup {"ci"}
  THEN Raised("LAYER_INVALID_KIND")
  ELSE IF layer_kind_api \notin DOMAIN tables.layers[dataset_version_id]
  THEN Raised("LAYER_NOT_FOUND")
  ELSE IF tables.layers[dataset_version_id][layer_kind_api] = None
  THEN Raised("LAYER_NOT_FOUND")
  ELSE Value(tables.layers[dataset_version_id][layer_kind_api])

\* band 1 of the raster, with its shape
read_layer_array(layer) == [rows |-> layer.rows, cols |-> layer.cols, data |-> layer.data]

\* --------------------------------------------------------------- geometry
\* A GeoJSON object is a record; it may lack "type".  Its coordinates are
\* given by what shapely makes of them:
\*   parseable  shape() builds a geometry from them
\*   is_empty, is_valid  of that geometry
\*   cells      the grid cells <<row, col>> whose centre the shape covers
\*   touched    the grid cells the shape touches (cells is a subset)
\* Cells are cells of the ground: the same shape written in another CRS
\* covers the same cells.
Coordinates(parseable, is_empty, is_valid, cells, touched) ==
  [parseable |-> parseable, is_empty |-> is_empty, is_valid |-> is_valid,
   cells |-> cells, touched |-> touched]
GeoJSON(type, coordinates) == [type |-> type, coordinates |-> coordinates]
\* a valid polygon covering the given cells, touching no others
Polygon(cells) ==
  GeoJSON("Polygon", Coordinates(TRUE, FALSE, TRUE, cells, cells))

\* geometry types shapely.geometry.shape builds
ShapelyTypes ==
  {"Point", "LineString", "LinearRing", "Polygon", "MultiPoint",
   "MultiLineString", "MultiPolygon", "GeometryCollection"}

\* shapely.geometry.shape: raises (not a GeometryError) on a type it does not
\* know and on coordinates it cannot read
shape(geojson) ==
  IF geojson.type \notin ShapelyTypes \/ ~geojson.coordinates.parseable
  THEN Raised("Exception")
  ELSE Value([geom_type |-> geojson.type,
              is_empty |-> geojson.coordinates.is_empty,
              is_valid |-> geojson.coordinates.is_valid,
              cells |-> geojson.coordinates.cells,
              touched |-> geojson.coordinates.touched])

\* GeometryError(ValueError) carries a message and no code
GeometryError(message) ==
  [raised |-> TRUE, code |-> "GeometryError", message |-> message]

parse_geojson_geometry(geojson) ==
  IF "type" \notin DOMAIN geojson
  THEN GeometryError("GeoJSON geometry must be an object with a 'type'.")
  ELSE LET geom == shape(geojson)
       IN  IF geom.raised THEN geom
           ELSE IF geom.value.is_empty THEN GeometryError("Geometry is empty.")
           ELSE IF geom.value.geom_type \notin {"Polygon", "MultiPolygon"}
           THEN GeometryError("Unsupported geometry type.")
           ELSE IF ~geom.value.is_valid
           THEN GeometryError("Invalid geometry (self-intersection or invalid rings).")
           ELSE geom

\* CRS.from_user_input raises on a CRS it does not recognise
reproject_geometry(geom, src_crs, dst_crs) ==
  IF src_crs \notin KnownCrs \/ dst_crs \notin KnownCrs
  THEN Raised("CRSError")
  ELSE Value(geom)

_grid_spec_from_lake(lk) ==
  [rows |-> lk.grid_rows, cols |-> lk.grid_cols, crs |-> lk.crs,
   origin_corner |-> lk.origin_corner]

\* variant: all_touched is read the wrong way round
rasterize_geometry_to_mask_Swapped(geom_projected, grid, all_touched) ==
  IF grid.origin_corner # "top_left" THEN Raised("ValueError")
  ELSE Value(Mask(grid.rows, grid.cols,
                  (IF all_touched THEN geom_projected.cells
                   ELSE geom_projected.touched) \cap Cells(grid.rows, grid.cols)))

\* variant: the origin corner is not looked at
rasterize_geometry_to_mask_AnyCorner(geom_projected, grid, all_touched) ==
  Value(Mask(grid.rows, grid.cols,
             (IF all_touched THEN geom_projected.touched
              ELSE geom_projected.cells) \cap Cells(grid.rows, grid.cols)))

\* rasterio.features.rasterize on the grid: the covered cells that lie in
\* the grid, or with all_touched the touched ones
rasterize_geometry_to_mask(geom_projected, grid, all_touched) ==
  IF grid.origin_corner # "top_left" THEN Raised("ValueError")
  ELSE Value(Mask(grid.rows, grid.cols,
                  (IF all_touched THEN geom_projected.touched
                   ELSE geom_projected.cells) \cap Cells(grid.rows, grid.cols)))

\* ----------------------------------------------------------- lakes services
\* variant: the nodata value is not looked at
ValidCells_IgnoringNoData(arr, nodata) == Cells(arr.rows, arr.cols)

\* the cells of an array where the layer is valid: all of them without a
\* nodata value, else those whose value differs from it
ValidCells(arr, nodata) ==
  IF nodata = None THEN Cells(arr.rows, arr.cols)
  ELSE {c \in Cells(arr.rows, arr.cols) : arr.data[c] # nodata.value}

GeometryValidationResponse(ok, dv, rows, cols, selected_cells, blocked_cells, breakdown, selection_bitset_base64, errors) ==
  [ok |-> ok, dataset_version_id |-> dv, rows |-> rows, cols |-> cols,
   selected_cells |-> selected_cells, blocked_cells |-> blocked_cells,
   blocked_breakdown |-> breakdown,
   selection_bitset_base64 |-> selection_bitset_base64, errors |-> errors]

NoBreakdown == [water |-> 0, inhabitants |-> 0, nodata |-> 0]

\* variant: ok looks at the water and inhabitants counts only
CheckConstraints_OkDespiteNoData(tables, dv, rows, cols, sel_mask, selection_bitset_b64) ==
  LET water_layer == get_layer(tables, dv, "water")
      inhab_layer == get_layer(tables, dv, "inhabitants")
  IN  IF water_layer.raised THEN water_layer
      ELSE IF inhab_layer.raised THEN inhab_layer
      ELSE
      LET water == read_layer_array(water_layer.value)
          inhab == read_layer_array(inhab_layer.value)
      IN  IF <<water.rows, water.cols>> # <<rows, cols>>
             \/ <<inhab.rows, inhab.cols>> # <<rows, cols>>
          THEN Raised("DIMENSION_MISMATCH")
          ELSE
          LET sel == sel_mask.cells
              water_valid == ValidCells(water, water_layer.value.nodata)
              inhab_valid == ValidCells(inhab, inhab_layer.value.nodata)
              nodata_mask == Cells(rows, cols) \ (water_valid \cap inhab_valid)
              water_hits == Cardinality({c \in sel \cap water_valid : water.data[c] # 0})
              inhab_hits == Cardinality({c \in sel \cap inhab_valid : inhab.data[c] > 0})
              nodata_hits == Cardinality(nodata_mask \cap sel)
              blocked_cells ==
                Cardinality({c \in sel : \/ water.data[c] # 0
                                         \/ inhab.data[c] > 0
                                         \/ c \in nodata_mask})
              errors ==
                (IF nodata_hits > 0 THEN <<"INTERSECTS_NODATA">> ELSE <<>>)
                \o (IF water_hits > 0 THEN <<"INTERSECTS_WATER">> ELSE <<>>)
                \o (IF inhab_hits > 0 THEN <<"INTERSECTS_INHABITANTS">> ELSE <<>>)
          IN  Value(GeometryValidationResponse(
                      water_hits + inhab_hits = 0, dv, rows, cols,
                      Cardinality(sel), blocked_cells,
                      [water |-> water_hits, inhabitants |-> inhab_hits,
                       nodata |-> nodata_hits],
                      selection_bitset_b64, errors))

\* variant: only the first cause found is reported
CheckConstraints_FirstCauseOnly(tables, dv, rows, cols, sel_mask, selection_bitset_b64) ==
  LET water_layer == get_layer(tables, dv, "water")
      inhab_layer == get_layer(tables, dv, "inhabitants")
  IN  IF water_layer.raised THEN water_layer
      ELSE IF inhab_layer.raised THEN inhab_layer
      ELSE
      LET water == read_layer_array(water_layer.value)
          inhab == read_layer_array(inhab_layer.value)
      IN  IF <<water.rows, water.cols>> # <<rows, cols>>
             \/ <<inhab.rows, inhab.cols>> # <<rows, cols>>
          THEN Raised("DIMENSION_MISMATCH")
          ELSE
          LET sel == sel_mask.cells
              water_valid == ValidCells(water, water_layer.value.nodata)
              inhab_valid == ValidCells(inhab, inhab_layer.value.nodata)
              nodata_mask == Cells(rows, cols) \ (water_valid \cap inhab_valid)
              water_hits == Cardinality({c \in sel \cap water_valid : water.data[c] # 0})
              inhab_hits == Cardinality({c \in sel \cap inhab_valid : inhab.data[c] > 0})
              nodata_hits == Cardinality(nodata_mask \cap sel)
              blocked_cells ==
                Cardinality({c \in sel : \/ water.data[c] # 0
                                         \/ inhab.data[c] > 0
                                         \/ c \in nodata_mask})
              errors ==
                IF nodata_hits > 0 THEN <<"INTERSECTS_NODATA">>
                ELSE IF water_hits > 0 THEN <<"INTERSECTS_WATER">>
                ELSE IF inhab_hits > 0 THEN <<"INTERSECTS_INHABITANTS">>
                ELSE <<>>
          IN  Value(GeometryValidationResponse(
                      blocked_cells = 0, dv, rows, cols,
                      Cardinality(sel), blocked_cells,
                      [water |-> water_hits, inhabitants |-> inhab_hits,
                       nodata |-> nodata_hits],
                      selection_bitset_b64, errors))

\* the part of validate_and_rasterize_geometry after the selection has been
\* encoded (lines 362-410)
CheckConstraints(tables, dv, rows, cols, sel_mask, selection_bitset_b64) ==
  LET water_layer == get_layer(tables, dv, "water")
      inhab_layer == get_layer(tables, dv, "inhabitants")
  IN  IF water_layer.raised THEN water_layer
      ELSE IF inhab_layer.raised THEN inhab_layer
      ELSE
      LET water == read_layer_array(water_layer.value)
          inhab == read_layer_array(inhab_layer.value)
      IN  IF <<water.rows, water.cols>> # <<rows, cols>>
             \/ <<inhab.rows, inhab.cols>> # <<rows, cols>>
          THEN Raised("DIMENSION_MISMATCH")
          ELSE
          LET sel == sel_mask.cells
              water_valid == ValidCells(water, water_layer.value.nodata)
              inhab_valid == ValidCells(inhab, inhab_layer.value.nodata)
              nodata_mask == Cells(rows, cols) \ (water_valid \cap inhab_valid)
              water_hits == Cardinality({c \in sel \cap water_valid : water.data[c] # 0})
              inhab_hits == Cardinality({c \in sel \cap inhab_valid : inhab.data[c] > 0})
              nodata_hits == Cardinality(nodata_mask \cap sel)
              blocked_cells ==
                Cardinality({c \in sel : \/ water.data[c] # 0
                                         \/ inhab.data[c] > 0
                                         \/ c \in nodata_mask})
              errors ==
                (IF nodata_hits > 0 THEN <<"INTERSECTS_NODATA">> ELSE <<>>)
                \o (IF water_hits > 0 THEN <<"INTERSECTS_WATER">> ELSE <<>>)
                \o (IF inhab_hits > 0 THEN <<"INTERSECTS_INHABITANTS">> ELSE <<>>)
          IN  Value(GeometryValidationResponse(
                      blocked_cells = 0, dv, rows, cols,
                      Cardinality(sel), blocked_cells,
                      [water |-> water_hits, inhabitants |-> inhab_hits,
                       nodata |-> nodata_hits],
                      selection_bitset_b64, errors))

validate_and_rasterize_geometry(tables, geometry_obj, geometry_crs, all_touched, dataset_version_id) ==
  LET lk == get_lake(tables)
  IN  IF lk.raised THEN lk
      ELSE
      LET dv == resolve_dataset_version(tables, dataset_version_id)
      IN  IF dv.raised THEN dv
          ELSE
          LET rows == lk.value.grid_rows
              cols == lk.value.grid_cols
              grid == _grid_spec_from_lake(lk.value)
              Failed(code) ==
                Value(GeometryValidationResponse(
                        FALSE, dv.value, rows, cols, 0, 0, NoBreakdown, None,
                        <<code>>))
              geom == parse_geojson_geometry(geometry_obj)
          IN  IF geom.raised
              THEN IF geom.code = "GeometryError" THEN Failed("INVALID_GEOJSON")
                   ELSE geom
              ELSE
              LET geom_proj == reproject_geometry(geom.value, geometry_crs, lk.value.crs)
              IN  IF geom_proj.raised THEN Failed("INVALID_GEOMETRY")
                  ELSE
                  LET sel_mask == rasterize_geometry_to_mask(geom_proj.value, grid,
                                                             all_touched)
                  IN  IF sel_mask.raised THEN sel_mask
                      ELSE IF Cardinality(sel_mask.value.cells) = 0
                      THEN Failed("EMPTY_SELECTION")
                      ELSE CheckConstraints(
                             tables, dv.value, rows, cols, sel_mask.value,
                             mask_to_encoded_bitset(sel_mask.value, 9))

\* the TTL caches of the module: key -> payload.  No entry is evicted for
\* size: the keys of the model are far fewer than maxsize.
NoEntries == [k \in {} |-> None]
Put(entries, key, payload) ==
  [k \in DOMAIN entries \cup {key} |-> IF k = key THEN payload ELSE entries[k]]

LakeId == "lake"
\* str(dataset_version_id) of an id
StrId(id) == IF id = None THEN "None" ELSE ToString(id.uuid)

\* variant: nodata cells are left out of the blocked mask
BlockedMaskResponse_WithoutNoData(tables, dataset_version_id) ==
  LET lk == get_lake(tables)
  IN  IF lk.raised THEN lk
      ELSE
      LET dv == resolve_dataset_version(tables, dataset_version_id)
      IN  IF dv.raised THEN dv
          ELSE
          LET water_layer == get_layer(tables, dv.value, "water")
              inhab_layer == get_layer(tables, dv.value, "inhabitants")
              rows == lk.value.grid_rows
              cols == lk.value.grid_cols
          IN  IF water_layer.raised THEN water_layer
              ELSE IF inhab_layer.raised THEN inhab_layer
              ELSE
              LET water == read_layer_array(water_layer.value)
                  inhab == read_layer_array(inhab_layer.value)
              IN  IF <<water.rows, water.cols>> # <<rows, cols>>
                     \/ <<inhab.rows, inhab.cols>> # <<rows, cols>>
                  THEN Raised("DIMENSION_MISMATCH")
                  ELSE
                  LET water_valid == ValidCells(water, water_layer.value.nodata)
                      inhab_valid == ValidCells(inhab, inhab_layer.value.nodata)
                      water_mask == {c \in water_valid : water.data[c] # 0}
                      inhab_mask == {c \in inhab_valid : inhab.data[c] > 0}
                      blocked == water_mask \cup inhab_mask
                  IN  Value([dataset_version_id |-> dv.value,
                             rows |-> rows, cols |-> cols,
                             blocked_bitset_base64 |->
                               mask_to_encoded_bitset(Mask(rows, cols, blocked), 6),
                             blocked_count |-> Cardinality(blocked),
                             water_count |-> Cardinality(water_mask),
                             inhabited_count |-> Cardinality(inhab_mask)])

\* compute_blocked_mask past the cache (lines 159-199)
BlockedMaskResponse(tables, dataset_version_id) ==
  LET lk == get_lake(tables)
  IN  IF lk.raised THEN lk
      ELSE
      LET dv == resolve_dataset_version(tables, dataset_version_id)
      IN  IF dv.raised THEN dv
          ELSE
          LET water_layer == get_layer(tables, dv.value, "water")
              inhab_layer == get_layer(tables, dv.value, "inhabitants")
              rows == lk.value.grid_rows
              cols == lk.value.grid_cols
          IN  IF water_layer.raised THEN water_layer
              ELSE IF inhab_layer.raised THEN inhab_layer
              ELSE
              LET water == read_layer_array(water_layer.value)
                  inhab == read_layer_array(inhab_layer.value)
              IN  IF <<water.rows, water.cols>> # <<rows, cols>>
                     \/ <<inhab.rows, inhab.cols>> # <<rows, cols>>
                  THEN Raised("DIMENSION_MISMATCH")
                  ELSE
                  LET water_valid == ValidCells(water, water_layer.value.nodata)
                      inhab_valid == ValidCells(inhab, inhab_layer.value.nodata)
                      water_mask == {c \in water_valid : water.data[c] # 0}
                      inhab_mask == {c \in inhab_valid : inhab.data[c] > 0}
                      nodata_mask == Cells(rows, cols) \ (water_valid \cap inhab_valid)
                      blocked == water_mask \cup inhab_mask \cup nodata_mask
                  IN  Value([dataset_version_id |-> dv.value,
                             rows |-> rows, cols |-> cols,
                             blocked_bitset_base64 |->
                               mask_to_encoded_bitset(Mask(rows, cols, blocked), 6),
                             blocked_count |-> Cardinality(blocked),
                             water_count |-> Cardinality(water_mask),
                             inhabited_count |-> Cardinality(inhab_mask)])

\* the number of read_layer_array calls compute_blocked_mask makes past the
\* cache: both layers are read once both have been found
BlockedMaskReads(tables, dataset_version_id) ==
  LET lk == get_lake(tables)
  IN  IF lk.raised THEN 0
      ELSE
      LET dv == resolve_dataset_version(tables, dataset_version_id)
      IN  IF dv.raised THEN 0
          ELSE IF get_layer(tables, dv.value, "water").raised THEN 0
          ELSE IF get_layer(tables, dv.value, "inhabitants").raised THEN 0
          ELSE 2

\* variant: the payload is returned without being stored
compute_blocked_mask_NoStore(tables, entries, dataset_version_id) ==
  LET cache_key == <<LakeId, IF dataset_version_id # None
                             THEN StrId(dataset_version_id) ELSE "ACTIVE">>
  IN  IF cache_key \in DOMAIN entries
      THEN [out |-> Value(entries[cache_key]), entries |-> entries, reads |-> 0]
      ELSE [out |-> BlockedMaskResponse(tables, dataset_version_id),
            entries |-> entries,
            reads |-> BlockedMaskReads(tables, dataset_version_id)]

\* the result, the _BLOCKED_CACHE entries after the call and the number of
\* layer rasters read
compute_blocked_mask(tables, entries, dataset_version_id) ==
  LET cache_key == <<LakeId, IF dataset_version_id # None
                             THEN StrId(dataset_version_id) ELSE "ACTIVE">>
  IN  IF cache_key \in DOMAIN entries
      THEN [out |-> Value(entries[cache_key]), entries |-> entries, reads |-> 0]
      ELSE LET payload == BlockedMaskResponse(tables, dataset_version_id)
               reads == BlockedMaskReads(tables, dataset_version_id)
           IN  IF payload.raised
               THEN [out |-> payload, entries |-> entries, reads |-> reads]
               ELSE [out |-> payload,
                     entries |-> Put(entries, cache_key, payload.value),
                     reads |-> reads]

RECURSIVE SumOver(_, _)
SumOver(S, f) ==
  IF S = {} THEN 0
  ELSE LET c == CHOOSE x \in S : TRUE IN f[c] + SumOver(S \ {c}, f)

\* variant: the shape of the array is not compared with the grid
LayerStats_NoShapeCheck(tables, dataset_version_id, layer_kind) ==
  LET lk == get_lake(tables)
  IN  IF lk.raised THEN lk
      ELSE
      LET dv == resolve_dataset_version(tables, dataset_version_id)
      IN  IF dv.raised THEN dv
          ELSE
          LET layer == get_layer(tables, dv.value, layer_kind)
              rows == lk.value.grid_rows
              cols == lk.value.grid_cols
          IN  IF layer.raised THEN layer
              ELSE
              LET arr == read_layer_array(layer.value)
              IN  IF FALSE
                  THEN Raised("DIMENSION_MISMATCH")
                  ELSE
                  LET valid == ValidCells(arr, layer.value.nodata)
                      clipped == [c \in valid |-> IF arr.data[c] > 0 THEN arr.data[c] ELSE 0]
                      stats ==
                        IF valid = {} THEN [count |-> 0]
                        ELSE IF layer_kind = "water"
                        THEN [count |-> Cardinality(valid),
                              water_count |->
                                Cardinality({c \in valid : arr.data[c] # 0})]
                        ELSE [count |-> Cardinality(valid),
                              min |-> CHOOSE v \in {arr.data[c] : c \in valid} :
                                        \A c \in valid : v <= arr.data[c],
                              max |-> CHOOSE v \in {arr.data[c] : c \in valid} :
                                        \A c \in valid : v >= arr.data[c],
                              inhabited_cells |->
                                Cardinality({c \in valid : arr.data[c] > 0}),
                              total_inhabitants |-> SumOver(valid, clipped)]
                  IN  Value([dataset_version_id |-> dv.value,
                             layer_kind |-> layer_kind,
                             rows |-> rows, cols |-> cols,
                             nodata |-> layer.value.nodata,
                             stats |-> stats])

\* compute_layer_stats past the cache (lines 213-268); of the stats the model
\* keeps the counts, the minimum, the maximum and the total
LayerStats(tables, dataset_version_id, layer_kind) ==
  LET lk == get_lake(tables)
  IN  IF lk.raised THEN lk
      ELSE
      LET dv == resolve_dataset_version(tables, dataset_version_id)
      IN  IF dv.raised THEN dv
          ELSE
          LET layer == get_layer(tables, dv.value, layer_kind)
              rows == lk.value.grid_rows
              cols == lk.value.grid_cols
          IN  IF layer.raised THEN layer
              ELSE
              LET arr == read_layer_array(layer.value)
              IN  IF <<arr.rows, arr.cols>> # <<rows, cols>>
                  THEN Raised("DIMENSION_MISMATCH")
                  ELSE
                  LET valid == ValidCells(arr, layer.value.nodata)
                      clipped == [c \in valid |-> IF arr.data[c] > 0 THEN arr.data[c] ELSE 0]
                      stats ==
                        IF valid = {} THEN [count |-> 0]
                        ELSE IF layer_kind = "water"
                        THEN [count |-> Cardinality(valid),
                              water_count |->
                                Cardinality({c \in valid : arr.data[c] # 0})]
                        ELSE [count |-> Cardinality(valid),
                              min |-> CHOOSE v \in {arr.data[c] : c \in valid} :
                                        \A c \in valid : v <= arr.data[c],
                              max |-> CHOOSE v \in {arr.data[c] : c \in valid} :
                                        \A c \in valid : v >= arr.data[c],
                              inhabited_cells |->
                                Cardinality({c \in valid : arr.data[c] > 0}),
                              total_inhabitants |-> SumOver(valid, clipped)]
                  IN  Value([dataset_version_id |-> dv.value,
                             layer_kind |-> layer_kind,
                             rows |-> rows, cols |-> cols,
                             nodata |-> layer.value.nodata,
                             stats |-> stats])

\* the number of read_layer_array calls compute_layer_stats makes past the cache
LayerStatsReads(tables, dataset_version_id, layer_kind) ==
  LET lk == get_lake(tables)
  IN  IF lk.raised THEN 0
      ELSE
      LET dv == resolve_dataset_version(tables, dataset_version_id)
      IN  IF dv.raised THEN 0
          ELSE IF get_layer(tables, dv.value, layer_kind).raised THEN 0
          ELSE 1

\* the result, the _STATS_CACHE entries after the call and the number of
\* layer rasters read
compute_layer_stats(tables, entries, dataset_version_id, layer_kind) ==
  LET cache_key == <<LakeId, StrId(dataset_version_id), layer_kind>>
  IN  IF cache_key \in DOMAIN entries
      THEN [out |-> Value(entries[cache_key]), entries |-> entries, reads |-> 0]
      ELSE LET payload == LayerStats(tables, dataset_version_id, layer_kind)
               reads == LayerStatsReads(tables, dataset_version_id, layer_kind)
           IN  IF payload.raised
               THEN [out |-> payload, entries |-> entries, reads |-> reads]
               ELSE [out |-> payload,
                     entries |-> Put(entries, cache_key, payload.value),
                     reads |-> reads]

\* The lakes tables behind the ledger's lake row: every dataset version has
\* both layers in the shape of the grid.  On the grid of two rows WaterCells
\* are water and NoDataCells hold the nodata value -1 of the inhabitants
\* layer; on a finer grid InhabitedCells are inhabited.
LakeStore(lk) ==
  LET fine == lk.grid_rows > 2
      water == Layer(lk.grid_rows, lk.grid_cols,
                     [c \in Cells(lk.grid_rows, lk.grid_cols) |->
                        IF ~fine /\ c \in WaterCells THEN 1 ELSE 0], None)
      inhab == Layer(lk.grid_rows, lk.grid_cols,
                     [c \in Cells(lk.grid_rows, lk.grid_cols) |->
                        IF ~fine /\ c \in NoDataCells THEN -1
                        ELSE IF fine /\ c \in InhabitedCells THEN 3 ELSE 0],
                     NoData(-1))
  IN  [lake |-> [grid_rows |-> lk.grid_rows, grid_cols |-> lk.grid_cols,
                 crs |-> LakeCrs, origin_corner |-> "top_left",
                 active_dv |-> lk.active_dv],
       datasets |-> DatasetVersions,
       layers |-> [dv \in DatasetVersions |->
                     [water |-> water, inhabitants |-> inhab]],
       revision |-> 0]

\* add_subdivision validates with the lake of the simulation, the lake CRS,
\* all_touched off and the simulation's dataset version (lines 115-122).  The
\* outcome is a function of the lake grid, the dataset version and the
\* geometry; the model computes it once for each of them.
LedgerValidations ==
  [g \in Grids, dv \in DatasetVersions, geometry \in Geometries |->
     validate_and_rasterize_geometry(
       LakeStore([grid_rows |-> g[1], grid_cols |-> g[2], active_dv |-> dv]),
       Polygon(geometry), LakeCrs, FALSE, dv)]

\* ------------------------------------------------------------------ state
VARIABLES
  lake,          \* the lakes row: grid_rows, grid_cols, active dataset version
  sim,           \* the committed simulations row, None before create_simulation
  subdivisions,  \* the committed subdivisions rows of the simulation
  runs,          \* the committed simulation_runs rows (inputs snapshots)
  pc,            \* per request: position in its handler
  sess,          \* per request: the ORM session state
  result,        \* per request: the outcome of its call, until it is handed back
  overlaps,      \* number of calls begun while another call was in flight
  released,      \* history: geometry of the row the latest committed delete
                 \* removed, kept until the call after it has been answered
  call,          \* a direct call of a function of the lakes services: its
                 \* name, its arguments and what it produced
  store,         \* the lakes tables and layer rasters the direct calls read
  cache          \* _BLOCKED_CACHE and _STATS_CACHE of the lakes services

db == <<lake, sim, subdivisions, runs>>
ledger == <<lake, sim, subdivisions, runs, pc, sess, result, overlaps, released>>
\* the lakes services called directly: what they read and keep
lakes == <<store, cache>>
vars == <<lake, sim, subdivisions, runs, pc, sess, result, overlaps, released,
          call, store, cache>>

NoSession ==
  [loaded |-> None,         \* simulations row as read by the session
   sim |-> None,            \* the Simulation object (attributes in memory)
   subs |-> {},             \* sim.subdivisions once lazy-loaded
   geometry |-> None,
   validation |-> None,
   subdivision_id |-> None,
   deleted |-> None,        \* id of the row deleted by db.flush()
   added |-> None]          \* Subdivision staged by db.add()

\* outcome of a call: a value returned, an (None, error) pair returned, or an
\* AppError raised
NoResult == [op |-> "none", kind |-> "none", code |-> ""]
Returned(op) == [op |-> op, kind |-> "ok", code |-> ""]
ReturnedError(op, code) == [op |-> op, kind |-> "error", code |-> code]
RaisedError(op, code) == [op |-> op, kind |-> "raised", code |-> code]

\* no function has been called directly
NoCall == [fn |-> "none"]

NoCache == [blocked |-> NoEntries, stats |-> NoEntries]

\* the ledger after construction, no function called directly
InitLedger ==
  /\ lake = [grid_rows |-> 2, grid_cols |-> 2, active_dv |-> UUID(21)]
  /\ sim = None
  /\ subdivisions = {}
  /\ runs = <<>>
  /\ pc = [r \in Requests |-> "idle"]
  /\ sess = [r \in Requests |-> NoSession]
  /\ result = [r \in Requests |-> NoResult]
  /\ overlaps = 0
  /\ released = None
  /\ call = NoCall

Init ==
  /\ InitLedger
  /\ store = LakeStore(lake)
  /\ cache = NoCache

\* the call ends with outcome res: its session is closed (get_db's finally),
\* which rolls back whatever was flushed but not committed
Finish(r, res) ==
  /\ pc' = [pc EXCEPT ![r] = "done"]
  /\ sess' = [sess EXCEPT ![r] = NoSession]
  /\ result' = [result EXCEPT ![r] = res]

\* the outcome is handed back to the client.  Handing back touches nothing
\* shared, so the model takes it as the very next step (Step below).
Respond(r) ==
  /\ pc[r] = "done"
  /\ pc' = [pc EXCEPT ![r] = "idle"]
  /\ result' = [result EXCEPT ![r] = NoResult]
  /\ released' = IF result[r].op = "delete_subdivision" THEN released ELSE None
  /\ UNCHANGED <<db, sess, overlaps, call, lakes>>


InFlight(r) == pc[r] \notin {"idle", "done"}
OthersIdle(r) == \A q \in Requests \ {r} : ~InFlight(q)

\* a call begins in request r, the lowest free request slot; the model bounds
\* how often that happens while another request is in flight
Begin(r) ==
  /\ pc[r] = "idle"
  /\ \A q \in Requests : q < r => pc[q] # "idle"
  /\ IF \E q \in Requests \ {r} : InFlight(q)
     THEN overlaps < MaxOverlaps /\ overlaps' = overlaps + 1
     ELSE UNCHANGED overlaps
  /\ UNCHANGED <<call, lakes>>

\* Subdivision ids are uuid4 values: a new row gets an id that no stored row
\* has and no request knows.  Which fresh value it is does not matter to the
\* code, so the model takes one determined by the row: the decoded selection
\* and the least copy number not in use, and equal tables are equal states.
KnownIds ==
  {s.id : s \in subdivisions} \cup
  UNION {{s.id : s \in sess[q].subs} \cup {sess[q].subdivision_id} : q \in Requests}
\* an id that names no subdivision
UnknownId == UUID(<<>>)
LiveIds == KnownIds \ {None, UnknownId}
uuid4(b64) ==
  LET raw == _decode_bitset(b64)
      k == CHOOSE i \in 1..MaxIds :
             /\ UUID(<<raw, i>>) \notin KnownIds
             /\ \A j \in 1..(i - 1) : UUID(<<raw, j>>) \in KnownIds
  IN  UUID(<<raw, k>>)

\* flush of the Simulation object: UPDATE simulations SET <the attributes
\* whose value differs from the loaded one> WHERE id = sim.id
FlushUpdate(row, loaded, obj) ==
  [c \in DOMAIN row |-> IF obj[c] # loaded[c] THEN obj[c] ELSE row[c]]

\* ------------------------------------------------------ create_simulation
CreateSimulation(r, user_id, dataset_version_id) ==
  /\ Begin(r)
  /\ released' = None
  /\ sim = None
  /\ LET dv == IF dataset_version_id = None THEN lake.active_dv
               ELSE dataset_version_id
     IN  IF dv = None
         THEN /\ Finish(r, RaisedError("create_simulation", "NO_ACTIVE_DATASET_VERSION"))
              /\ UNCHANGED sim
         ELSE /\ sim' = [user_id |-> user_id,
                         dataset_version_id |-> dv,
                         occupied_bitset_base64 |-> None,
                         subdivision_count |-> 0,
                         total_selected_cells |-> 0]
              /\ Finish(r, Returned("create_simulation"))
  /\ UNCHANGED <<lake, subdivisions, runs>>

\* -------------------------------------------------------- add_subdivision
\* variant: the capacity test is off by one
AddGuards_OffByOne(s, user_id, dataset_version_id) ==
  IF s.user_id # user_id
  THEN RaisedError("add_subdivision", "FORBIDDEN")
  ELSE IF s.subdivision_count > MAX_SUBDIVISIONS
  THEN ReturnedError("add_subdivision", "MAX_SUBDIVISIONS_EXCEEDED")
  ELSE IF dataset_version_id # None /\ dataset_version_id # s.dataset_version_id
  THEN ReturnedError("add_subdivision", "DATASET_VERSION_IMMUTABLE")
  ELSE NoResult

\* variant: the dataset version of the request is not compared
AddGuards_NoVersionCheck(s, user_id, dataset_version_id) ==
  IF s.user_id # user_id
  THEN RaisedError("add_subdivision", "FORBIDDEN")
  ELSE IF s.subdivision_count >= MAX_SUBDIVISIONS
  THEN ReturnedError("add_subdivision", "MAX_SUBDIVISIONS_EXCEEDED")
  ELSE NoResult

\* variant: the capacity test comes before the ownership test
AddGuards_CapacityFirst(s, user_id, dataset_version_id) ==
  IF s.subdivision_count >= MAX_SUBDIVISIONS
  THEN ReturnedError("add_subdivision", "MAX_SUBDIVISIONS_EXCEEDED")
  ELSE IF s.user_id # user_id
  THEN RaisedError("add_subdivision", "FORBIDDEN")
  ELSE IF dataset_version_id # None /\ dataset_version_id # s.dataset_version_id
  THEN ReturnedError("add_subdivision", "DATASET_VERSION_IMMUTABLE")
  ELSE NoResult

\* lines 97-113: ownership, capacity and dataset version checks on the
\* loaded Simulation
AddGuards(s, user_id, dataset_version_id) ==
  IF s.user_id # user_id
  THEN RaisedError("add_subdivision", "FORBIDDEN")
  ELSE IF s.subdivision_count >= MAX_SUBDIVISIONS
  THEN ReturnedError("add_subdivision", "MAX_SUBDIVISIONS_EXCEEDED")
  ELSE IF dataset_version_id # None /\ dataset_version_id # s.dataset_version_id
  THEN ReturnedError("add_subdivision", "DATASET_VERSION_IMMUTABLE")
  ELSE NoResult

\* variant: a selection is turned down only when it comes without bitset
AddLoad_UncheckedOk(r, user_id, dataset_version_id, geometry) ==
  /\ Begin(r)
  /\ released' = IF released # None /\ OthersIdle(r)
                 THEN IF released.geometry = geometry THEN released ELSE None
                 ELSE None
  /\ sim # None
  /\ LET g == AddGuards(sim, user_id, dataset_version_id)
         validation == LedgerValidations[<<lake.grid_rows, lake.grid_cols>>,
                                         sim.dataset_version_id, geometry]
     IN  IF g # NoResult
         THEN Finish(r, g)
         ELSE IF validation.raised
         THEN Finish(r, RaisedError("add_subdivision", validation.code))
         ELSE IF validation.value.selection_bitset_base64 = None
         THEN Finish(r, ReturnedError("add_subdivision", "INVALID_SELECTION"))
         ELSE /\ pc' = [pc EXCEPT ![r] = "add_overlap"]
              /\ sess' = [sess EXCEPT ![r] =
                            [NoSession EXCEPT !.loaded = sim, !.sim = sim,
                                              !.geometry = geometry,
                                              !.validation = validation.value]]
              /\ UNCHANGED result
  /\ UNCHANGED db

\* the caller loads the simulation in its session; add_subdivision runs its
\* checks on that object and validates the geometry against the lake grid
\* (lines 97-135).  The lake is read after the simulation; only a change of the
\* lake grid could fall between the two reads, and it touches nothing the
\* first read returns, so both reads are one step.
AddLoad(r, user_id, dataset_version_id, geometry) ==
  /\ Begin(r)
  /\ released' = IF released # None /\ OthersIdle(r)
                 THEN IF released.geometry = geometry THEN released ELSE None
                 ELSE None
  /\ sim # None
  /\ LET g == AddGuards(sim, user_id, dataset_version_id)
         validation == LedgerValidations[<<lake.grid_rows, lake.grid_cols>>,
                                         sim.dataset_version_id, geometry]
     IN  IF g # NoResult
         THEN Finish(r, g)
         ELSE IF validation.raised
         THEN Finish(r, RaisedError("add_subdivision", validation.code))
         ELSE IF ~validation.value.ok
         THEN Finish(r, ReturnedError("add_subdivision", "INVALID_SELECTION"))
         ELSE /\ pc' = [pc EXCEPT ![r] = "add_overlap"]
              /\ sess' = [sess EXCEPT ![r] =
                            [NoSession EXCEPT !.loaded = sim, !.sim = sim,
                                              !.geometry = geometry,
                                              !.validation = validation.value]]
              /\ UNCHANGED result
  /\ UNCHANGED db

\* variant: a single shared cell is tolerated
OverlapCheck_Lenient(occupied, new_bitset) ==
  IF occupied # None
  THEN LET overlap_cells == _bitset_intersects(occupied, new_bitset)
       IN  IF overlap_cells.raised
           THEN RaisedError("add_subdivision", overlap_cells.code)
           ELSE IF overlap_cells.value > 1
           THEN ReturnedError("add_subdivision", "SUBDIVISION_OVERLAP")
           ELSE NoResult
  ELSE NoResult

\* lines 141-148: the overlap check against the occupied bitset the session
\* holds
OverlapCheck(occupied, new_bitset) ==
  IF occupied # None
  THEN LET overlap_cells == _bitset_intersects(occupied, new_bitset)
       IN  IF overlap_cells.raised
           THEN RaisedError("add_subdivision", overlap_cells.code)
           ELSE IF overlap_cells.value > 0
           THEN ReturnedError("add_subdivision", "SUBDIVISION_OVERLAP")
           ELSE NoResult
  ELSE NoResult

AddOverlap(r) ==
  /\ pc[r] = "add_overlap"
  /\ UNCHANGED <<overlaps, released, call, lakes>>
  /\ LET s == sess[r].sim
         validation == sess[r].validation
         new_bitset == validation.selection_bitset_base64
         o == OverlapCheck(s.occupied_bitset_base64, new_bitset)
         occupied == IF s.occupied_bitset_base64 # None
                     THEN _bitset_or(s.occupied_bitset_base64, new_bitset)
                     ELSE Value(new_bitset)
     IN  IF o # NoResult
         THEN Finish(r, o)
         ELSE IF occupied.raised
         THEN Finish(r, RaisedError("add_subdivision", occupied.code))
         ELSE /\ pc' = [pc EXCEPT ![r] = "add_commit"]
              /\ sess' = [sess EXCEPT
                   ![r].sim = [s EXCEPT
                      !.occupied_bitset_base64 = occupied.value,
                      !.subdivision_count = s.subdivision_count + 1,
                      !.total_selected_cells =
                          s.total_selected_cells + validation.selected_cells],
                   ![r].added = [geometry |-> sess[r].geometry,
                                 selection_bitset_base64 |-> new_bitset,
                                 selected_cells |-> validation.selected_cells]]
              /\ UNCHANGED result
  /\ UNCHANGED db

\* line 169: db.commit() flushes the UPDATE of the simulation and the INSERT
\* of the subdivision in one transaction
AddCommit(r) ==
  /\ pc[r] = "add_commit"
  /\ Cardinality(LiveIds) < MaxIds
  /\ UNCHANGED <<overlaps, released, call, lakes>>
  /\ LET sub == [id |-> uuid4(sess[r].added.selection_bitset_base64),
                 geometry |-> sess[r].added.geometry,
                 selection_bitset_base64 |-> sess[r].added.selection_bitset_base64,
                 selected_cells |-> sess[r].added.selected_cells]
     IN  /\ sim' = FlushUpdate(sim, sess[r].loaded, sess[r].sim)
         /\ subdivisions' = subdivisions \cup {sub}
         /\ Finish(r, Returned("add_subdivision"))
  /\ UNCHANGED <<lake, runs>>


\* ----------------------------------------------------- delete_subdivision
\* line 177 on the Simulation the caller loaded
DelLoad(r, user_id, subdivision_id) ==
  /\ Begin(r)
  /\ released' = None
  /\ sim # None
  /\ IF sim.user_id # user_id
     THEN Finish(r, RaisedError("delete_subdivision", "FORBIDDEN"))
     ELSE /\ pc' = [pc EXCEPT ![r] = "del_find"]
          /\ sess' = [sess EXCEPT ![r] =
                        [NoSession EXCEPT !.loaded = sim, !.sim = sim,
                                          !.subdivision_id = subdivision_id]]
          /\ UNCHANGED result
  /\ UNCHANGED db

\* lines 181-187: sim.subdivisions is lazy-loaded from the committed rows
DelFind(r) ==
  /\ pc[r] = "del_find"
  /\ UNCHANGED <<overlaps, released, call, lakes>>
  /\ LET found == {s \in subdivisions : s.id = sess[r].subdivision_id}
     IN  IF found = {}
         THEN Finish(r, RaisedError("delete_subdivision", "SUBDIVISION_NOT_FOUND"))
         ELSE /\ pc' = [pc EXCEPT ![r] = "del_flush"]
              /\ sess' = [sess EXCEPT ![r].subs = subdivisions]
              /\ UNCHANGED result
  /\ UNCHANGED db

\* variant: the rebuild keeps one remaining bitset instead of the union
RebuildOccupied_NoOr(remaining, occupied) ==
  IF remaining = {} THEN [raised |-> FALSE, value |-> occupied]
  ELSE [raised |-> FALSE,
        value |-> (CHOOSE x \in remaining : TRUE).selection_bitset_base64]

\* lines 193-199: occupied rebuilt from the loaded collection, which still
\* holds the deleted object
RECURSIVE RebuildOccupied(_, _)
RebuildOccupied(remaining, occupied) ==
  IF remaining = {} THEN Value(occupied)
  ELSE LET s == CHOOSE x \in remaining : TRUE
           next == IF occupied = None THEN Value(s.selection_bitset_base64)
                   ELSE _bitset_or(occupied, s.selection_bitset_base64)
       IN  IF next.raised THEN next
           ELSE RebuildOccupied(remaining \ {s}, next.value)

\* variant: rows are counted instead of their cells
TotalCells_CountRows(remaining) == Cardinality(remaining)

RECURSIVE TotalCells(_)
TotalCells(remaining) ==
  IF remaining = {} THEN 0
  ELSE LET s == CHOOSE x \in remaining : TRUE
       IN  s.selected_cells + TotalCells(remaining \ {s})

Max(a, b) == IF a >= b THEN a ELSE b

\* variant: the flush makes the row delete durable at once
DelFlush_AutoCommit(r) ==
  /\ pc[r] = "del_flush"
  /\ UNCHANGED <<overlaps, released, call, lakes>>
  /\ \A q \in Requests \ {r} : sess[q].deleted # sess[r].subdivision_id
  /\ subdivisions' = {s \in subdivisions : s.id # sess[r].subdivision_id}
  /\ LET remaining == {s \in sess[r].subs : s.id # sess[r].subdivision_id}
         occupied == RebuildOccupied(remaining, None)
         s0 == sess[r].sim
     IN  IF occupied.raised
         THEN Finish(r, RaisedError("delete_subdivision", occupied.code))
         ELSE /\ pc' = [pc EXCEPT ![r] = "del_commit"]
              /\ sess' = [sess EXCEPT
                   ![r].deleted = sess[r].subdivision_id,
                   ![r].sim = [s0 EXCEPT
                      !.occupied_bitset_base64 = occupied.value,
                      !.subdivision_count = Max(0, s0.subdivision_count - 1),
                      !.total_selected_cells = TotalCells(remaining)]]
              /\ UNCHANGED result
  /\ UNCHANGED <<lake, sim, runs>>

\* variant: the rebuild does not skip the deleted subdivision
DelFlush_RebuildAll(r) ==
  /\ pc[r] = "del_flush"
  /\ UNCHANGED <<overlaps, released, call, lakes>>
  /\ \A q \in Requests \ {r} : sess[q].deleted # sess[r].subdivision_id
  /\ LET remaining == {s \in sess[r].subs : s.id # sess[r].subdivision_id}
         occupied == RebuildOccupied(sess[r].subs, None)
         s0 == sess[r].sim
     IN  IF occupied.raised
         THEN Finish(r, RaisedError("delete_subdivision", occupied.code))
         ELSE /\ pc' = [pc EXCEPT ![r] = "del_commit"]
              /\ sess' = [sess EXCEPT
                   ![r].deleted = sess[r].subdivision_id,
                   ![r].sim = [s0 EXCEPT
                      !.occupied_bitset_base64 = occupied.value,
                      !.subdivision_count = Max(0, s0.subdivision_count - 1),
                      !.total_selected_cells = TotalCells(remaining)]]
              /\ UNCHANGED result
  /\ UNCHANGED db

\* lines 189-204: DELETE inside the session's transaction (the statement
\* waits while another transaction holds the row deleted and uncommitted),
\* then the rebuild on the session's objects
DelFlush(r) ==
  /\ pc[r] = "del_flush"
  /\ UNCHANGED <<overlaps, released, call, lakes>>
  /\ \A q \in Requests \ {r} : sess[q].deleted # sess[r].subdivision_id
  /\ LET remaining == {s \in sess[r].subs : s.id # sess[r].subdivision_id}
         occupied == RebuildOccupied(remaining, None)
         s0 == sess[r].sim
     IN  IF occupied.raised
         THEN Finish(r, RaisedError("delete_subdivision", occupied.code))
         ELSE /\ pc' = [pc EXCEPT ![r] = "del_commit"]
              /\ sess' = [sess EXCEPT
                   ![r].deleted = sess[r].subdivision_id,
                   ![r].sim = [s0 EXCEPT
                      !.occupied_bitset_base64 = occupied.value,
                      !.subdivision_count = Max(0, s0.subdivision_count - 1),
                      !.total_selected_cells = TotalCells(remaining)]]
              /\ UNCHANGED result
  /\ UNCHANGED db

\* variant: the commit makes the row delete durable without the UPDATE of the
\* simulation
DelCommit_RowOnly(r) ==
  /\ pc[r] = "del_commit"
  /\ UNCHANGED <<overlaps, call, lakes>>
  /\ released' = IF OthersIdle(r)
                 THEN LET s == CHOOSE x \in sess[r].subs : x.id = sess[r].deleted
                      IN  [geometry |-> s.geometry,
                           selection_bitset_base64 |-> s.selection_bitset_base64]
                 ELSE None
  /\ subdivisions' = {s \in subdivisions : s.id # sess[r].deleted}
  /\ Finish(r, Returned("delete_subdivision"))
  /\ UNCHANGED <<lake, sim, runs>>

\* line 206: db.commit() makes the row delete durable together with the
\* UPDATE of the simulation
DelCommit(r) ==
  /\ pc[r] = "del_commit"
  /\ UNCHANGED <<overlaps, call, lakes>>
  /\ released' = IF OthersIdle(r)
                 THEN LET s == CHOOSE x \in sess[r].subs : x.id = sess[r].deleted
                      IN  [geometry |-> s.geometry,
                           selection_bitset_base64 |-> s.selection_bitset_base64]
                 ELSE None
  /\ subdivisions' = {s \in subdivisions : s.id # sess[r].deleted}
  /\ sim' = FlushUpdate(sim, sess[r].loaded, sess[r].sim)
  /\ Finish(r, Returned("delete_subdivision"))
  /\ UNCHANGED <<lake, runs>>

\* ------------------------------------------------------------- create_run
CreateRun(r, user_id) ==
  /\ Begin(r)
  /\ released' = None
  /\ sim # None
  /\ Len(runs) < MaxRuns
  /\ IF sim.user_id # user_id
     THEN /\ Finish(r, RaisedError("create_run", "FORBIDDEN"))
          /\ UNCHANGED runs
     ELSE /\ runs' = Append(runs,
                [status |-> "DONE",
                 dataset_version_id |-> sim.dataset_version_id])
          /\ Finish(r, Returned("create_run"))
  /\ UNCHANGED <<lake, sim, subdivisions>>

\* ------------------------------------------------------------ environment
\* a request is dropped before its commit (timeout, error in the caller):
\* the session is closed without commit.  The outcome records where.
Abandon(r) ==
  /\ InFlight(r)
  /\ UNCHANGED <<overlaps, released, call, lakes>>
  /\ Finish(r, [op |-> "abandoned", kind |-> "raised", code |-> pc[r]])
  /\ UNCHANGED db

\* the lake row is re-gridded to a larger grid by its maintainers
\* (lakes.grid_rows/grid_cols are plain columns; nothing in the services
\* pins them)
RegridLake(g) ==
  /\ g[1] * g[2] > lake.grid_rows * lake.grid_cols
  /\ lake' = [lake EXCEPT !.grid_rows = g[1], !.grid_cols = g[2]]
  /\ released' = None
  /\ UNCHANGED <<sim, subdivisions, runs, pc, sess, result, overlaps, call, lakes>>

\* ------------------------------------------------------------------- spec
NoneDone == \A q \in Requests : pc[q] # "done"

Step(r) ==
  \/ NoneDone /\ \E u \in Creators, dv \in CreateVersions : CreateSimulation(r, u, dv)
  \/ NoneDone /\ \E u \in Users, dv \in DatasetVersions \cup {None}, g \in Geometries :
        AddLoad(r, u, dv, g)
  \/ NoneDone /\ AddOverlap(r)
  \/ NoneDone /\ AddCommit(r)
  \/ NoneDone /\ \E u \in Users, i \in {s.id : s \in subdivisions} \cup {UnknownId} :
        DelLoad(r, u, i)
  \/ NoneDone /\ DelFind(r)
  \/ NoneDone /\ DelFlush(r)
  \/ NoneDone /\ DelCommit(r)
  \/ NoneDone /\ \E u \in Users : CreateRun(r, u)
  \/ NoneDone /\ Abandon(r)
  \/ Respond(r)

Regrid == NoneDone /\ \E g \in Grids : RegridLake(g)

\* requests served in parallel, each in its own session
Next == (\E r \in Requests : Step(r)) \/ Regrid

Spec == Init /\ [][Next]_vars

\* calls executed one at a time
SeqNext == (\E r \in Requests : OthersIdle(r) /\ Step(r)) \/ Regrid

SeqSpec == Init /\ [][SeqNext]_vars

\* ------------------------------------- direct calls of the bitset functions
Shapes == {sh \in (0..MaxCells) \X (0..MaxCells) : sh[1] * sh[2] <= MaxCells}
Masks ==
  UNION {{Mask(sh[1], sh[2], cells) :
            cells \in SUBSET ((0..(sh[1] - 1)) \X (0..(sh[2] - 1)))} : sh \in Shapes}
ByteStrings ==
  UNION {[1..n -> SampleBytes] :
           n \in 0..(IF MaxBytes <= MaxLiteralRun THEN MaxBytes ELSE MaxLiteralRun)}

CallMaskToBitsetBytes(mask) ==
  /\ call = NoCall
  /\ call' = [fn |-> "mask_to_bitset_bytes", mask |-> mask,
              out |-> mask_to_bitset_bytes(mask)]
  /\ UNCHANGED <<ledger, lakes>>

\* the bytes of the latest mask_to_bitset_bytes call are unpacked with the
\* shape of its mask
CallBitsetBytesToMask ==
  /\ call.fn = "mask_to_bitset_bytes"
  /\ call' = [fn |-> "bitset_bytes_to_mask", mask |-> call.mask,
              bitset_bytes |-> call.out,
              out |-> bitset_bytes_to_mask(call.out, call.mask.rows, call.mask.cols)]
  /\ UNCHANGED <<ledger, lakes>>

CallEncodeBitset(bitset_bytes, level) ==
  /\ call = NoCall
  /\ call' = [fn |-> "encode_bitset_zlib_base64", bitset_bytes |-> bitset_bytes,
              level |-> level,
              out |-> encode_bitset_zlib_base64(bitset_bytes, level)]
  /\ UNCHANGED <<ledger, lakes>>

\* the text of the latest encode_bitset_zlib_base64 call is decoded
CallDecodeBitset ==
  /\ call.fn = "encode_bitset_zlib_base64"
  /\ call' = [fn |-> "decode_bitset_zlib_base64", bitset_bytes |-> call.bitset_bytes,
              b64 |-> call.out,
              out |-> decode_bitset_zlib_base64(call.out)]
  /\ UNCHANGED <<ledger, lakes>>

\* the result is handed back to the caller
CallReturn ==
  /\ call # NoCall
  /\ call' = NoCall
  /\ UNCHANGED <<ledger, lakes>>

BitsetNext ==
  \/ \E mask \in Masks : CallMaskToBitsetBytes(mask)
  \/ CallBitsetBytesToMask
  \/ \E b \in ByteStrings, level \in CompressionLevels : CallEncodeBitset(b, level)
  \/ CallDecodeBitset
  \/ CallReturn

BitsetSpec == Init /\ [][BitsetNext]_vars

\* ----------------------------------- direct calls of the lakes services
\* the lakes row of the direct calls: a 2 x 2 grid
Lake22 ==
  [grid_rows |-> 2, grid_cols |-> 2, crs |-> LakeCrs,
   origin_corner |-> "top_left", active_dv |-> UUID(21)]

\* Layer values: cell <<0, 0>> takes every pair of a water value and an
\* inhabitants value; <<0, 1>> is water, <<1, 0>> is inhabited, <<1, 1>> is 0
\* in both layers.
WaterValues == {0, 1, 255}
InhabValues == {-1, 0, 3}
WaterNoData == {None, NoData(0), NoData(255)}
InhabNoData == {None, NoData(-1), NoData(0)}

WaterLayer(w, nodata) ==
  Layer(2, 2, [c \in Cells(2, 2) |->
                 IF c = <<0, 0>> THEN w ELSE IF c = <<0, 1>> THEN 1 ELSE 0],
        nodata)
InhabLayer(h, nodata) ==
  Layer(2, 2, [c \in Cells(2, 2) |->
                 IF c = <<0, 0>> THEN h ELSE IF c = <<1, 0>> THEN 3 ELSE 0],
        nodata)
\* a raster of another shape, all 0
BlankLayer(rows, cols) == Layer(rows, cols, [c \in Cells(rows, cols) |-> 0], None)

StoreOf(lk, water, inhab) ==
  [lake |-> lk, datasets |-> {UUID(21)},
   layers |-> [dv \in {UUID(21)} |-> [water |-> water, inhabitants |-> inhab]],
   revision |-> 0]

\* stores in which every call finds what it needs
GoodStores ==
  {StoreOf(Lake22, WaterLayer(w, wn), InhabLayer(h, hn)) :
     w \in WaterValues, wn \in WaterNoData, h \in InhabValues, hn \in InhabNoData}

\* stores with a layer whose shape is not the grid's
MisshapenStores ==
  {StoreOf(Lake22, BlankLayer(1, 2), InhabLayer(0, None)),
   StoreOf(Lake22, WaterLayer(0, None), BlankLayer(3, 2))}

\* stores that lack the lake, its active dataset version or a layer, or whose
\* lake row names a corner or a CRS the services cannot work with
BrokenStores ==
  {StoreOf(None, WaterLayer(0, None), InhabLayer(0, None)),
   StoreOf([Lake22 EXCEPT !.active_dv = None], WaterLayer(0, None), InhabLayer(0, None)),
   StoreOf(Lake22, None, InhabLayer(0, None)),
   StoreOf(Lake22, WaterLayer(0, None), None),
   StoreOf([Lake22 EXCEPT !.origin_corner = "bottom_left"],
           WaterLayer(0, None), InhabLayer(0, None))}

\* GeoJSON objects: polygons over clear and blocked cells, outside the grid,
\* touching more cells than they cover; other types; objects that do not
\* parse; empty and invalid shapes
ValidGeoJSONs ==
  {Polygon({<<0, 0>>}), Polygon({<<1, 1>>}), Polygon({<<0, 0>>, <<1, 1>>}),
   Polygon({<<0, 0>>, <<0, 1>>, <<1, 0>>}), Polygon({<<2, 2>>}),
   GeoJSON("Polygon", Coordinates(TRUE, FALSE, TRUE, {<<1, 1>>}, {<<1, 1>>, <<0, 1>>})),
   GeoJSON("MultiPolygon", Coordinates(TRUE, FALSE, TRUE, {<<1, 1>>}, {<<1, 1>>}))}
NoTypeGeoJSON == [coordinates |-> Coordinates(TRUE, FALSE, TRUE, {<<1, 1>>}, {<<1, 1>>})]
FaultyGeoJSONs ==
  {NoTypeGeoJSON,
   GeoJSON("Polygon", Coordinates(FALSE, FALSE, FALSE, {}, {})),
   GeoJSON("Circle", Coordinates(TRUE, FALSE, TRUE, {<<1, 1>>}, {<<1, 1>>})),
   GeoJSON("Point", Coordinates(TRUE, FALSE, TRUE, {}, {<<1, 1>>})),
   GeoJSON("LineString", Coordinates(TRUE, FALSE, TRUE, {}, {<<1, 1>>, <<0, 1>>})),
   GeoJSON("Polygon", Coordinates(TRUE, TRUE, TRUE, {}, {})),
   GeoJSON("Polygon", Coordinates(TRUE, FALSE, FALSE, {<<1, 1>>}, {<<1, 1>>}))}
GeoJSONs == ValidGeoJSONs \cup FaultyGeoJSONs

\* arguments of validate_and_rasterize_geometry: geometry_obj, geometry_crs,
\* all_touched, dataset_version_id
ValidateInputs ==
  {<<g, LakeCrs, at, None>> : g \in GeoJSONs, at \in BOOLEAN}
  \cup {<<g, crs, FALSE, None>> :
          g \in {Polygon({<<1, 1>>}), Polygon({<<2, 2>>}), NoTypeGeoJSON},
          crs \in {"EPSG:4326", "EPSG:0"}}
  \cup {<<Polygon({<<1, 1>>}), LakeCrs, FALSE, dv>> : dv \in {UUID(21), UUID(22)}}

CallValidate(in) ==
  /\ call = NoCall
  /\ call' = [fn |-> "validate_and_rasterize_geometry",
              geometry_obj |-> in[1], geometry_crs |-> in[2],
              all_touched |-> in[3], dataset_version_id |-> in[4],
              out |-> validate_and_rasterize_geometry(store, in[1], in[2], in[3], in[4])]
  /\ UNCHANGED <<ledger, lakes>>

ValidationInit ==
  /\ InitLedger
  /\ store \in GoodStores \cup MisshapenStores \cup BrokenStores
  /\ cache = NoCache

ValidationNext ==
  \/ \E in \in ValidateInputs : CallValidate(in)
  \/ CallReturn

ValidationSpec == ValidationInit /\ [][ValidationNext]_vars

\* --- validation, blocked mask and layer statistics with their caches, while
\* layer rasters are replaced
\* number of times a layer raster is replaced
MaxRevisions == 1

CallComputeBlockedMask(dataset_version_id) ==
  /\ call = NoCall
  /\ LET res == compute_blocked_mask(store, cache.blocked, dataset_version_id)
     IN  /\ call' = [fn |-> "compute_blocked_mask",
                     dataset_version_id |-> dataset_version_id,
                     out |-> res.out, reads |-> res.reads]
         /\ cache' = [cache EXCEPT !.blocked = res.entries]
  /\ UNCHANGED <<ledger, store>>

CallComputeLayerStats(dataset_version_id, layer_kind) ==
  /\ call = NoCall
  /\ LET res == compute_layer_stats(store, cache.stats, dataset_version_id, layer_kind)
     IN  /\ call' = [fn |-> "compute_layer_stats",
                     dataset_version_id |-> dataset_version_id,
                     layer_kind |-> layer_kind,
                     out |-> res.out, reads |-> res.reads]
         /\ cache' = [cache EXCEPT !.stats = res.entries]
  /\ UNCHANGED <<ledger, store>>

\* the raster of a layer is replaced by one of another or of the grid's shape
\* (layers are owned outside the services)
ReplaceLayer(layer_kind, layer) ==
  /\ call = NoCall
  /\ store.lake # None
  /\ store.revision < MaxRevisions
  /\ store' = [store EXCEPT !.layers[UUID(21)][layer_kind] = layer,
                            !.revision = store.revision + 1]
  /\ UNCHANGED <<ledger, call, cache>>

\* a dataset version is published with rasters of its own and made the
\* lake's active one (dataset versions are owned outside the services)
NewVersion == UUID(22)
ActivateVersion ==
  /\ call = NoCall
  /\ store.lake # None
  /\ store.revision < MaxRevisions
  /\ NewVersion \notin store.datasets
  /\ store' = [store EXCEPT
                 !.lake.active_dv = NewVersion,
                 !.datasets = store.datasets \cup {NewVersion},
                 !.layers = [dv \in store.datasets \cup {NewVersion} |->
                               IF dv = NewVersion
                               THEN [water |-> WaterLayer(1, None),
                                     inhabitants |-> InhabLayer(3, None)]
                               ELSE store.layers[dv]],
                 !.revision = store.revision + 1]
  /\ UNCHANGED <<ledger, call, cache>>

\* TTLCache drops an entry whose time to live has passed
Expire ==
  /\ call = NoCall
  /\ \/ \E k \in DOMAIN cache.blocked :
          cache' = [cache EXCEPT !.blocked = [j \in DOMAIN cache.blocked \ {k} |-> cache.blocked[j]]]
     \/ \E k \in DOMAIN cache.stats :
          cache' = [cache EXCEPT !.stats = [j \in DOMAIN cache.stats \ {k} |-> cache.stats[j]]]
  /\ UNCHANGED <<ledger, call, store>>

\* _BLOCKED_CACHE.clear() and _STATS_CACHE.clear()
ClearCaches ==
  /\ call = NoCall
  /\ cache # NoCache
  /\ cache' = NoCache
  /\ UNCHANGED <<ledger, call, store>>

LakesStores ==
  {StoreOf(Lake22, WaterLayer(0, None), InhabLayer(0, None))}
  \cup MisshapenStores

LakesInit ==
  /\ InitLedger
  /\ store \in LakesStores
  /\ cache = NoCache

LakesNext ==
  \/ \E in \in ValidateInputs : CallValidate(in)
  \/ \E dv \in {None, UUID(21), NewVersion} : CallComputeBlockedMask(dv)
  \/ \E dv \in {UUID(21)}, k \in LayerKinds : CallComputeLayerStats(dv, k)
  \/ \E k \in LayerKinds, l \in {BlankLayer(1, 2), BlankLayer(2, 2)} : ReplaceLayer(k, l)
  \/ ActivateVersion
  \/ Expire
  \/ ClearCaches
  \/ CallReturn

LakesSpec == LakesInit /\ [][LakesNext]_vars

\* --- rasterization of boxes, called directly and through validation, on
\* grids of either origin corner
\* Box corners are given in half cells from the grid's origin, x to the right
\* and y downwards: cell <<r, c>> is the square [2c, 2c + 2] x [2r, 2r + 2]
\* and its centre is <<2c + 1, 2r + 1>>.
MaxHalfCell == 6
Boxes ==
  {b \in (0..MaxHalfCell) \X (0..MaxHalfCell) \X (0..MaxHalfCell) \X (0..MaxHalfCell) :
     b[1] < b[3] /\ b[2] < b[4]}
PlaneCells == (0..(MaxHalfCell \div 2)) \X (0..(MaxHalfCell \div 2))
\* the cells rasterize burns for the box <<x0, y0, x1, y1>>: those whose centre
\* the box holds
CentreCells(b) ==
  {c \in PlaneCells : /\ b[1] <= 2 * c[2] + 1 /\ 2 * c[2] + 1 < b[3]
                      /\ b[2] <= 2 * c[1] + 1 /\ 2 * c[1] + 1 < b[4]}
\* the cells rasterize burns with all_touched: those the box reaches
TouchedCells(b) ==
  {c \in PlaneCells : /\ b[1] <= 2 * c[2] + 2 /\ 2 * c[2] <= b[3]
                      /\ b[2] <= 2 * c[1] + 2 /\ 2 * c[1] <= b[4]}
BoxGeometry(b) ==
  [geom_type |-> "Polygon", is_empty |-> FALSE, is_valid |-> TRUE,
   cells |-> CentreCells(b), touched |-> TouchedCells(b)]
BoxPolygon(b) ==
  GeoJSON("Polygon", Coordinates(TRUE, FALSE, TRUE, CentreCells(b), TouchedCells(b)))

OriginCorners == {"top_left", "bottom_left"}
RasterStores ==
  {StoreOf([Lake22 EXCEPT !.grid_rows = g[1], !.grid_cols = g[2], !.origin_corner = oc],
           BlankLayer(g[1], g[2]), BlankLayer(g[1], g[2])) :
     g \in Grids, oc \in OriginCorners}

CallRasterize(b, all_touched) ==
  /\ call = NoCall
  /\ call' = [fn |-> "rasterize_geometry_to_mask",
              box |-> b, grid |-> _grid_spec_from_lake(store.lake),
              all_touched |-> all_touched,
              out |-> rasterize_geometry_to_mask(BoxGeometry(b),
                        _grid_spec_from_lake(store.lake), all_touched)]
  /\ UNCHANGED <<ledger, lakes>>

RasterInit ==
  /\ InitLedger
  /\ store \in RasterStores
  /\ cache = NoCache

RasterNext ==
  \/ \E b \in Boxes, at \in BOOLEAN : CallRasterize(b, at)
  \/ \E b \in Boxes, at \in BOOLEAN : CallValidate(<<BoxPolygon(b), LakeCrs, at, None>>)
  \/ CallReturn

RasterSpec == RasterInit /\ [][RasterNext]_vars

\* --- compute_blocked_mask and compute_layer_stats in concurrent requests,
\* statement by statement, while cache entries expire
\* the cache key of a call of compute_blocked_mask or compute_layer_stats
CacheKey(c) ==
  IF c.fn = "compute_layer_stats"
  THEN <<LakeId, StrId(c.dataset_version_id), c.layer_kind>>
  ELSE <<LakeId, IF c.dataset_version_id # None
                 THEN StrId(c.dataset_version_id) ELSE "ACTIVE">>
CacheOf(c) == IF c.fn = "compute_layer_stats" THEN cache.stats ELSE cache.blocked

\* the calls made: fn, dataset_version_id and for statistics layer_kind
CachedCalls ==
  {[fn |-> "compute_blocked_mask", dataset_version_id |-> dv] : dv \in {None, UUID(21)}}
  \cup {[fn |-> "compute_layer_stats", dataset_version_id |-> UUID(21),
         layer_kind |-> k] : k \in LayerKinds}
\* the payload the call c computes past the cache
Compute(c) ==
  IF c.fn = "compute_layer_stats"
  THEN LayerStats(store, c.dataset_version_id, c.layer_kind)
  ELSE BlockedMaskResponse(store, c.dataset_version_id)
ReturnedValue(c, payload) == [op |-> c.fn, kind |-> "ok", code |-> "", out |-> payload]

\* the call begins: cache_key is built (lines 155, 209)
CacheBegin(r, c) ==
  /\ Begin(r)
  /\ pc' = [pc EXCEPT ![r] = "cache_test"]
  /\ sess' = [sess EXCEPT ![r] = [c |-> c, payload |-> None]]
  /\ UNCHANGED <<lake, sim, subdivisions, runs, result, released>>

\* if cache_key in _CACHE (lines 156, 210)
CacheTest(r) ==
  /\ pc[r] = "cache_test"
  /\ pc' = [pc EXCEPT ![r] = IF CacheKey(sess[r].c) \in DOMAIN CacheOf(sess[r].c)
                             THEN "cache_read" ELSE "cache_compute"]
  /\ UNCHANGED <<lake, sim, subdivisions, runs, sess, result, overlaps, released, call, lakes>>

\* return _CACHE[cache_key] (lines 157, 211): TTLCache.__getitem__ raises
\* KeyError for a key that is gone
CacheRead(r) ==
  /\ pc[r] = "cache_read"
  /\ LET c == sess[r].c
     IN  IF CacheKey(c) \in DOMAIN CacheOf(c)
         THEN Finish(r, ReturnedValue(c, CacheOf(c)[CacheKey(c)]))
         ELSE Finish(r, RaisedError(c.fn, "KeyError"))
  /\ UNCHANGED <<lake, sim, subdivisions, runs, overlaps, released, call, lakes>>

\* the payload is computed from the layers (lines 159-199, 213-268)
CacheCompute(r) ==
  /\ pc[r] = "cache_compute"
  /\ LET c == sess[r].c
         payload == Compute(c)
     IN  IF payload.raised
         THEN Finish(r, RaisedError(c.fn, payload.code))
         ELSE /\ pc' = [pc EXCEPT ![r] = "cache_store"]
              /\ sess' = [sess EXCEPT ![r].payload = payload.value]
              /\ UNCHANGED result
  /\ UNCHANGED <<lake, sim, subdivisions, runs, overlaps, released, call, lakes>>

\* _CACHE[cache_key] = payload; return payload (lines 201-202, 271-272)
CacheStore(r) ==
  /\ pc[r] = "cache_store"
  /\ LET c == sess[r].c
         entries == Put(CacheOf(c), CacheKey(c), sess[r].payload)
     IN  /\ cache' = IF c.fn = "compute_layer_stats"
                     THEN [cache EXCEPT !.stats = entries]
                     ELSE [cache EXCEPT !.blocked = entries]
         /\ Finish(r, ReturnedValue(c, sess[r].payload))
  /\ UNCHANGED <<lake, sim, subdivisions, runs, overlaps, released, call, store>>

CacheStores ==
  {StoreOf(Lake22, WaterLayer(w, None), InhabLayer(h, None)) :
     w \in WaterValues, h \in InhabValues}

CacheInit ==
  /\ InitLedger
  /\ store \in CacheStores
  /\ cache = NoCache

CacheNext ==
  \/ \E r \in Requests, c \in CachedCalls : CacheBegin(r, c)
  \/ \E r \in Requests : CacheTest(r)
  \/ \E r \in Requests : CacheRead(r)
  \/ \E r \in Requests : CacheCompute(r)
  \/ \E r \in Requests : CacheStore(r)
  \/ \E r \in Requests : Respond(r)
  \/ Expire

CacheSpec == CacheInit /\ [][CacheNext]_vars

\* ================================================================ properties
\* decoded selection of a stored subdivision, and the cells it sets
RawOf(s) == _decode_bitset(s.selection_bitset_base64)
StoredCells(s) == CellsOf(RawOf(s))
OccupiedCells(b64) == IF b64 = None THEN {} ELSE CellsOf(_decode_bitset(b64))

RECURSIVE SelectedSum(_)
SelectedSum(S) ==
  IF S = {} THEN 0
  ELSE LET x == CHOOSE y \in S : TRUE
       IN  x.selected_cells + SelectedSum(S \ {x})

\* the step of request r that runs the overlap check, resp. the flush and
\* rebuild (an abandoned request leaves its position without running them)
AddOverlapStep(r) ==
  pc[r] = "add_overlap" /\ pc'[r] # "add_overlap" /\ result'[r].op # "abandoned"
DelFlushStep(r) ==
  pc[r] = "del_flush" /\ pc'[r] # "del_flush" /\ result'[r].op # "abandoned"
Overlapped == ReturnedError("add_subdivision", "SUBDIVISION_OVERLAP")
Mismatch(op) == RaisedError(op, "BITSET_DIMENSION_MISMATCH")

\* C1: with calls executed one at a time, no grid cell is set in the
\* selection bitsets of two different stored subdivisions of the simulation.
C1_NoCellInTwoSubdivisions ==
  \A a, b \in subdivisions :
    a.id # b.id => StoredCells(a) \cap StoredCells(b) = {}

C1_Witness ==
  /\ \E a, b \in subdivisions : a.id # b.id
  /\ \E r \in Requests : result[r] = Overlapped

\* C2: with calls executed one at a time, the occupied bitset is absent
\* exactly when no subdivision is stored, and otherwise decodes to the bitwise
\* OR of the decoded selection bitsets of exactly the stored subdivisions.
C2_OccupiedIsUnionOfStored ==
  sim # None =>
    /\ (sim.occupied_bitset_base64 = None) <=> (subdivisions = {})
    /\ sim.occupied_bitset_base64 # None =>
         LET occ == _decode_bitset(sim.occupied_bitset_base64)
         IN  /\ \A s \in subdivisions : Len(RawOf(s)) = Len(occ)
             /\ \A i \in 1..Len(occ) :
                  BitsOf(occ[i]) = UNION {BitsOf(RawOf(s)[i]) : s \in subdivisions}

C2_Witness ==
  /\ \E r \in Requests : result[r] = Returned("delete_subdivision")
  /\ Cardinality(subdivisions) = 2

\* C3: an add whose candidate shares a cell with the occupied bitset returns
\* the error SUBDIVISION_OVERLAP, does not raise, and leaves the simulation
\* row and the subdivision rows unchanged; a candidate repeating a stored
\* geometry (stored with selected_cells > 0) is rejected in that way.
C3_OverlapRejected ==
  [][\A r \in Requests :
       AddOverlapStep(r) =>
         LET cand == sess[r].validation.selection_bitset_base64
             shares ==
               /\ sim.occupied_bitset_base64 # None
               /\ Len(_decode_bitset(sim.occupied_bitset_base64))
                    = Len(_decode_bitset(cand))
               /\ OccupiedCells(sim.occupied_bitset_base64)
                    \cap OccupiedCells(cand) # {}
             twice == {s \in subdivisions :
                         /\ s.geometry = sess[r].geometry
                         /\ RawOf(s) = _decode_bitset(cand)}
         IN  /\ shares => /\ result'[r] = Overlapped
                          /\ UNCHANGED <<sim, subdivisions>>
             /\ \A s \in twice : /\ s.selected_cells > 0
                                 /\ result'[r] = Overlapped
                                 /\ UNCHANGED <<sim, subdivisions>>]_vars

C3_Witness ==
  /\ \E r \in Requests : result[r] = Overlapped
  /\ sim # None /\ sim.subdivision_count = 1
  /\ \E s \in subdivisions : s.selected_cells > 0

\* C4: concurrent adds are serialized, so that even with interleaved steps no
\* cell belongs to two stored subdivisions of the same grid.
C4_ConcurrentAddsSerialized ==
  \A a, b \in subdivisions :
    (a.id # b.id /\ Len(RawOf(a)) = Len(RawOf(b)))
      => StoredCells(a) \cap StoredCells(b) = {}

\* C5: the persisted simulation row and subdivision rows change only in the
\* commit step of a call that succeeds (or in create_simulation); a call that
\* fails or is abandoned at any earlier step, the rebuild after the flushed
\* row delete included, leaves them as they were; a commit makes the row
\* change and every staged ledger value persistent in the same step.
C5_AllOrNothing ==
  [][ /\ (sim' # sim \/ subdivisions' # subdivisions) =>
          (\E q \in Requests :
             /\ result'[q].kind = "ok"
             /\ pc[q] \in {"idle", "add_commit", "del_commit"}
             /\ (pc[q] = "idle" => result'[q].op = "create_simulation"))
      /\ \A r \in Requests :
           (pc[r] = "add_commit" /\ pc'[r] = "done" /\ result'[r].kind = "ok") =>
             (/\ \E s \in subdivisions' \ subdivisions :
                   s.selection_bitset_base64 = sess[r].added.selection_bitset_base64
              /\ sim'.occupied_bitset_base64 = sess[r].sim.occupied_bitset_base64)
      /\ \A d \in Requests :
           (pc[d] = "del_commit" /\ pc'[d] = "done" /\ result'[d].kind = "ok") =>
             (/\ \A s \in subdivisions' : s.id # sess[d].deleted
              /\ (sess[d].sim.occupied_bitset_base64
                     # sess[d].loaded.occupied_bitset_base64)
                   => sim'.occupied_bitset_base64
                        = sess[d].sim.occupied_bitset_base64)]_vars

C5_Witness ==
  \E r \in Requests :
    /\ result[r].op = "abandoned"
    /\ result[r].code = "del_commit"
    /\ subdivisions # {}

\* C6: subdivision_count equals the number of subdivisions stored for the
\* simulation in every reachable state.
C6_CountMatchesStored ==
  sim # None => sim.subdivision_count = Cardinality(subdivisions)

\* C7: with calls executed one at a time, total_selected_cells equals the
\* number of set bits of the occupied bitset (0 when absent) and the sum of
\* selected_cells over the stored subdivisions.
C7_TotalIsPopulation ==
  sim # None =>
    /\ sim.total_selected_cells =
         (IF sim.occupied_bitset_base64 = None THEN 0
          ELSE PopCount(_decode_bitset(sim.occupied_bitset_base64)))
    /\ sim.total_selected_cells = SelectedSum(subdivisions)

C7_Witness ==
  /\ \E r \in Requests : result[r] = Returned("delete_subdivision")
  /\ sim.total_selected_cells = 2
  /\ Cardinality(subdivisions) = 1

\* C8: an add by the owner on a simulation that holds MAX_SUBDIVISIONS
\* subdivisions returns the error MAX_SUBDIVISIONS_EXCEEDED, does not raise
\* and changes nothing persisted; the number of stored subdivisions never
\* exceeds MAX_SUBDIVISIONS.
C8_CapacityRejected ==
  [][ /\ \A r \in Requests, u \in Users, dv \in DatasetVersions \cup {None},
          g \in Geometries :
          (/\ pc[r] = "idle" /\ pc'[r] # "idle" /\ sim # None
           /\ u = sim.user_id
           /\ Cardinality(subdivisions) >= MAX_SUBDIVISIONS
           /\ AddLoad(r, u, dv, g))
            => /\ result'[r] = ReturnedError("add_subdivision",
                                             "MAX_SUBDIVISIONS_EXCEEDED")
               /\ UNCHANGED db
      /\ Cardinality(subdivisions') <= MAX_SUBDIVISIONS]_vars

C8_Witness ==
  /\ \E r \in Requests :
       result[r] = ReturnedError("add_subdivision", "MAX_SUBDIVISIONS_EXCEEDED")
  /\ Cardinality(subdivisions) = MAX_SUBDIVISIONS

\* a step never changes the dataset version of the simulation
VersionKept == sim # None => sim'.dataset_version_id = sim.dataset_version_id

C10_MismatchIsFatal ==
  [][\A r \in Requests :
       /\ (/\ AddOverlapStep(r)
           /\ sess[r].sim.occupied_bitset_base64 # None
           /\ Len(_decode_bitset(sess[r].sim.occupied_bitset_base64))
                # Len(_decode_bitset(sess[r].validation.selection_bitset_base64)))
            => /\ result'[r] = Mismatch("add_subdivision")
               /\ UNCHANGED db
       /\ (/\ DelFlushStep(r)
           /\ \E a, b \in sess[r].subs :
                /\ a.id # sess[r].subdivision_id
                /\ b.id # sess[r].subdivision_id
                /\ Len(RawOf(a)) # Len(RawOf(b)))
            => /\ result'[r] = Mismatch("delete_subdivision")
               /\ UNCHANGED db
       /\ result'[r].code = "BITSET_DIMENSION_MISMATCH"
            => result'[r].kind = "raised"]_vars

C10_Witness ==
  \E r \in Requests : result[r] = Mismatch("delete_subdivision")

\* the latest delete removed a subdivision that was selected on the grid the
\* lake has now
ReleasedOnGrid ==
  /\ released # None
  /\ Len(_decode_bitset(released.selection_bitset_base64)) =
       (lake.grid_rows * lake.grid_cols + 7) \div 8

\* C11: with calls executed one at a time and the lake grid unchanged, once a
\* delete_subdivision has removed a subdivision, the next call, when it is an
\* add_subdivision of the same geometry by the owner for the simulation's
\* dataset version, passes the checks, passes the overlap check and stores
\* the subdivision: every cell released by the delete is available again.
C11_ReaddAfterDeleteAccepted ==
  [][ \A r \in Requests :
        /\ \A u \in Users, dv \in DatasetVersions \cup {None} :
             ( /\ ReleasedOnGrid
               /\ pc[r] = "idle" /\ pc'[r] # "idle"
               /\ sim # None /\ u = sim.user_id
               /\ dv \in {None, sim.dataset_version_id}
               /\ AddLoad(r, u, dv, released.geometry) )
             => pc'[r] = "add_overlap"
        /\ ( /\ ReleasedOnGrid
             /\ AddOverlapStep(r)
             /\ sess[r].geometry = released.geometry )
           => pc'[r] = "add_commit"
        /\ ( /\ ReleasedOnGrid
             /\ pc[r] = "add_commit" /\ pc'[r] = "done"
             /\ result'[r].op # "abandoned"
             /\ sess[r].geometry = released.geometry )
           => /\ result'[r] = Returned("add_subdivision")
              /\ \E s \in subdivisions' : s.geometry = released.geometry
              /\ CellsOf(RawOf(CHOOSE s \in subdivisions' : s.geometry = released.geometry))
                   \subseteq OccupiedCells(sim'.occupied_bitset_base64) ]_vars

\* the re-added subdivision is stored after the delete of the same geometry
C11_Witness ==
  \E r \in Requests :
    /\ result[r] = Returned("add_subdivision")
    /\ ReleasedOnGrid
    /\ \E s \in subdivisions : s.geometry = released.geometry
    /\ sim.subdivision_count = Cardinality(subdivisions)

\* C12: unpacking the bytes packed from a mask with the shape of the mask
\* gives the mask back, for every mask; decoding the text encoded from a byte
\* string gives the byte string back, for every byte string and level.
C12_RoundTrips ==
  /\ call.fn = "bitset_bytes_to_mask" => call.out = Value(call.mask)
  /\ call.fn = "decode_bitset_zlib_base64" => call.out = call.bitset_bytes

\* an all-zero byte string has been encoded and decoded
C12_Witness ==
  /\ call.fn = "decode_bitset_zlib_base64"
  /\ call.bitset_bytes = <<0, 0>>
  /\ call.out = <<0, 0>>

\* C13: mask_to_bitset_bytes returns exactly ceil(rows * cols / 8) bytes for
\* every shape, empty shapes included, and the bits of the final byte beyond
\* the last cell are 0.
C13_PackedLength ==
  call.fn = "mask_to_bitset_bytes" =>
    LET n == call.mask.rows * call.mask.cols
    IN  /\ Len(call.out) = (n + 7) \div 8
        /\ 8 * Len(call.out) >= n
        /\ 8 * Len(call.out) < n + 8
        /\ n % 8 # 0 => call.out[Len(call.out)] < 2 ^ (n % 8)

\* nine cells, all set, are packed into two bytes
C13_Witness ==
  /\ call.fn = "mask_to_bitset_bytes"
  /\ call.mask.rows = 3 /\ call.mask.cols = 3
  /\ Cardinality(call.mask.cells) = 9
  /\ call.out = <<255, 1>>

\* C14: cell (r, c) is linear index i = r * cols + c; bit i % 8 of byte
\* i \div 8 (bit 0 the least significant) is 1 exactly when the cell is True.
\* A 1x8 mask with only its first cell set packs to 0x01, a 1x9 mask with
\* only index 8 set packs to 0x00 0x01.
C14_BitOrder ==
  call.fn = "mask_to_bitset_bytes" =>
    /\ \A r \in 0..(call.mask.rows - 1), c \in 0..(call.mask.cols - 1) :
         LET i == r * call.mask.cols + c
         IN  ((i % 8) \in BitsOf(call.out[(i \div 8) + 1]))
               <=> (<<r, c>> \in call.mask.cells)
    /\ call.mask = Mask(1, 8, {<<0, 0>>}) => call.out = <<1>>
    /\ call.mask = Mask(1, 9, {<<0, 8>>}) => call.out = <<0, 1>>

\* the 1x9 mask with only index 8 set has been packed
C14_Witness ==
  /\ call.fn = "mask_to_bitset_bytes"
  /\ call.mask = Mask(1, 9, {<<0, 8>>})
  /\ call.out = <<0, 1>>

\* ---- validate_and_rasterize_geometry called directly
IsValidate == call.fn = "validate_and_rasterize_geometry"
\* the GeoJSON object is a non-empty valid Polygon or MultiPolygon
WellFormed(g) ==
  /\ "type" \in DOMAIN g
  /\ g.type \in {"Polygon", "MultiPolygon"}
  /\ g.coordinates.parseable
  /\ ~g.coordinates.is_empty
  /\ g.coordinates.is_valid
\* the call returned a response for a geometry that was rasterized
Rasterized ==
  /\ IsValidate
  /\ ~call.out.raised
  /\ WellFormed(call.geometry_obj)
  /\ call.geometry_crs \in KnownCrs
\* the cells of the grid the geometry of a call selects
SelectionOf(c) ==
  (IF c.all_touched THEN c.geometry_obj.coordinates.touched
   ELSE c.geometry_obj.coordinates.cells)
  \cap Cells(store.lake.grid_rows, store.lake.grid_cols)
Selection == SelectionOf(call)
\* the layers of the dataset version the call resolved
WaterOf == store.layers[call.out.value.dataset_version_id].water
InhabOf == store.layers[call.out.value.dataset_version_id].inhabitants
IsNoData(layer, c) == layer.nodata # None /\ layer.data[c] = layer.nodata.value
NoDataAt(c) == IsNoData(WaterOf, c) \/ IsNoData(InhabOf, c)
BlockedAt(c) == WaterOf.data[c] # 0 \/ InhabOf.data[c] > 0 \/ NoDataAt(c)
ErrorCodes(resp) == {resp.errors[i] : i \in 1..Len(resp.errors)}

\* C15: a validation response has ok = true exactly when the selection has at
\* least one cell and no selected cell is blocked (water value nonzero,
\* inhabitants value > 0, or nodata in either layer); a selection with zero
\* cells gives ok = false with the single cause EMPTY_SELECTION.
C15_OkIffSelectedAndUnblocked ==
  (IsValidate /\ ~call.out.raised) =>
    LET resp == call.out.value
    IN  /\ resp.ok => /\ Rasterized
                      /\ Selection # {}
                      /\ resp.selected_cells = Cardinality(Selection)
                      /\ \A c \in Selection : ~BlockedAt(c)
        /\ Rasterized =>
             /\ Selection = {} => (~resp.ok /\ resp.errors = <<"EMPTY_SELECTION">>)
             /\ (Selection # {} /\ \E c \in Selection : BlockedAt(c)) => ~resp.ok
             /\ (Selection # {} /\ \A c \in Selection : ~BlockedAt(c)) => resp.ok

\* a selection of two clear cells has been validated
C15_Witness ==
  /\ Rasterized
  /\ call.out.value.ok
  /\ call.out.value.selected_cells = 2

\* C16: when a non-empty selection holds a blocked cell, the response has
\* ok = false and still carries the encoded bitset of the selection, and its
\* errors are INTERSECTS_WATER, INTERSECTS_INHABITANTS, INTERSECTS_NODATA
\* exactly for the causes whose breakdown count is above 0.
C16_BlockedKeepsBitsetAndCauses ==
  (Rasterized /\ Selection # {} /\ \E c \in Selection : BlockedAt(c)) =>
    LET resp == call.out.value
        cols == store.lake.grid_cols
    IN  /\ ~resp.ok
        /\ resp.blocked_cells > 0
        /\ resp.selection_bitset_base64 # None
        /\ CellsOf(decode_bitset_zlib_base64(resp.selection_bitset_base64))
             = {c[1] * cols + c[2] : c \in Selection}
        /\ ("INTERSECTS_WATER" \in ErrorCodes(resp)) <=> (resp.blocked_breakdown.water > 0)
        /\ ("INTERSECTS_INHABITANTS" \in ErrorCodes(resp))
             <=> (resp.blocked_breakdown.inhabitants > 0)
        /\ ("INTERSECTS_NODATA" \in ErrorCodes(resp)) <=> (resp.blocked_breakdown.nodata > 0)
        /\ ErrorCodes(resp) \subseteq
             {"INTERSECTS_WATER", "INTERSECTS_INHABITANTS", "INTERSECTS_NODATA"}
        /\ Len(resp.errors) = Cardinality(ErrorCodes(resp))

\* a selection blocked for all three causes has been validated
C16_Witness ==
  /\ Rasterized
  /\ ~call.out.value.ok
  /\ call.out.value.selection_bitset_base64 # None
  /\ ErrorCodes(call.out.value) =
       {"INTERSECTS_WATER", "INTERSECTS_INHABITANTS", "INTERSECTS_NODATA"}

\* C17 as stated: a selected cell whose value in a layer equals that layer's
\* nodata value is counted under nodata and under neither water nor
\* inhabitants (read on selections of one cell).
C17_NoDataCellOnlyNoData ==
  (Rasterized /\ Cardinality(Selection) = 1 /\ \E c \in Selection : NoDataAt(c)) =>
    /\ call.out.value.blocked_breakdown.nodata = 1
    /\ call.out.value.blocked_breakdown.water = 0
    /\ call.out.value.blocked_breakdown.inhabitants = 0

\* C17: a selected cell whose value in a layer equals that layer's nodata
\* value is counted under nodata and not under the cause of that layer; it is
\* counted under the cause of the other layer exactly when its value there is
\* not that layer's nodata value and blocks (water nonzero, inhabitants > 0).
C17_NoDataCellNotUnderItsLayer ==
  (Rasterized /\ Selection # {}) =>
    LET b == call.out.value.blocked_breakdown
    IN  /\ b.nodata = Cardinality({c \in Selection : NoDataAt(c)})
        /\ b.water = Cardinality({c \in Selection :
                        ~IsNoData(WaterOf, c) /\ WaterOf.data[c] # 0})
        /\ b.inhabitants = Cardinality({c \in Selection :
                        ~IsNoData(InhabOf, c) /\ InhabOf.data[c] > 0})

\* one cell whose water value is the water nodata value and whose inhabitants
\* value is valid and above 0: counted under nodata and inhabitants
C17_Witness ==
  /\ Rasterized
  /\ Selection = {<<0, 0>>}
  /\ IsNoData(WaterOf, <<0, 0>>)
  /\ WaterOf.data[<<0, 0>>] # 0
  /\ call.out.value.blocked_breakdown =
       [water |-> 0, inhabitants |-> 1, nodata |-> 1]

\* ---- layers whose shape differs from the grid's
Misshapen(layer) ==
  <<layer.rows, layer.cols>> # <<store.lake.grid_rows, store.lake.grid_cols>>
\* the call c is given a layer of the active dataset version whose shape
\* differs from the grid's
GivenMisshapen(c) ==
  /\ c.dataset_version_id \in {None, store.lake.active_dv}
  /\ IF c.fn = "compute_layer_stats"
     THEN Misshapen(store.layers[store.lake.active_dv][c.layer_kind])
     ELSE \/ Misshapen(store.layers[store.lake.active_dv].water)
          \/ Misshapen(store.layers[store.lake.active_dv].inhabitants)
\* the call c reads the layers: a validation whose geometry parses, reprojects
\* and selects a cell, a blocked mask or statistics not found in the cache
ReadsLayers(c) ==
  IF c.fn = "validate_and_rasterize_geometry"
  THEN /\ WellFormed(c.geometry_obj)
       /\ c.geometry_crs \in KnownCrs
       /\ SelectionOf(c) # {}
  ELSE CacheKey(c) \notin DOMAIN CacheOf(c)
LakesCall(c) ==
  c.fn \in {"validate_and_rasterize_geometry", "compute_blocked_mask",
            "compute_layer_stats"}

Resolves(c) ==
  /\ store.lake # None
  /\ IF c.dataset_version_id = None THEN store.lake.active_dv # None
     ELSE c.dataset_version_id \in store.datasets
DatasetVersionOf(c) ==
  IF c.dataset_version_id = None THEN store.lake.active_dv ELSE c.dataset_version_id
\* a layer of the resolved dataset version is missing or not in the grid's shape
LayerUnusable(c) ==
  \E k \in LayerKinds :
    LET layer == store.layers[DatasetVersionOf(c)][k]
    IN  IF layer = None THEN TRUE ELSE Misshapen(layer)

\* C19: missing lake, missing dataset version, missing layer, dimension
\* mismatch and reprojection/CRS errors leave validate_and_rasterize_geometry
\* as raised errors, none as an ok = false response (each read where the call
\* gets as far as the failure: a CRS error for a geometry that parses, a layer
\* failure for a selection of at least one cell).
C19_HardFailuresRaise ==
  IsValidate =>
    /\ ~Resolves(call) => call.out.raised
    /\ ( /\ Resolves(call)
         /\ WellFormed(call.geometry_obj)
         /\ call.geometry_crs \notin KnownCrs ) => call.out.raised
    /\ ( /\ Resolves(call)
         /\ WellFormed(call.geometry_obj)
         /\ call.geometry_crs \in KnownCrs
         /\ Selection # {}
         /\ LayerUnusable(call) ) => call.out.raised

\* the response of a validation that did not raise has exactly this error code
ReportedAs(code) ==
  /\ ~call.out.raised
  /\ ~call.out.value.ok
  /\ call.out.value.errors = <<code>>

\* C20: a geometry without type tag or with an unparseable structure is
\* reported as INVALID_GEOJSON, one of a type other than Polygon and
\* MultiPolygon as UNSUPPORTED_GEOMETRY, an empty or topologically invalid one
\* as INVALID_GEOMETRY, and a valid non-empty Polygon or MultiPolygon gets
\* none of the three codes.
C20_FailuresClassifiedByCause ==
  (IsValidate /\ Resolves(call)) =>
    LET g == call.geometry_obj
        typed == "type" \in DOMAIN g
    IN  /\ (~typed \/ ~g.coordinates.parseable) => ReportedAs("INVALID_GEOJSON")
        /\ ( /\ typed
             /\ g.coordinates.parseable
             /\ g.type \notin {"Polygon", "MultiPolygon"} )
           => ReportedAs("UNSUPPORTED_GEOMETRY")
        /\ ( /\ typed
             /\ g.coordinates.parseable
             /\ g.type \in {"Polygon", "MultiPolygon"}
             /\ (g.coordinates.is_empty \/ ~g.coordinates.is_valid) )
           => ReportedAs("INVALID_GEOMETRY")
        /\ (WellFormed(g) /\ call.geometry_crs \in KnownCrs /\ ~call.out.raised)
           => ErrorCodes(call.out.value) \cap
                {"INVALID_GEOJSON", "UNSUPPORTED_GEOMETRY", "INVALID_GEOMETRY"} = {}

\* ---- rasterization
IsRasterize == call.fn = "rasterize_geometry_to_mask"

\* C23: for every geometry and grid the cells rasterize_geometry_to_mask
\* selects with all_touched = true include those it selects with
\* all_touched = false, so their number is at least as large.
C23_AllTouchedSuperset ==
  (IsRasterize /\ call.grid.origin_corner = "top_left") =>
    LET with == rasterize_geometry_to_mask(BoxGeometry(call.box), call.grid, TRUE)
        without == rasterize_geometry_to_mask(BoxGeometry(call.box), call.grid, FALSE)
    IN  /\ ~with.raised /\ ~without.raised
        /\ call.out = (IF call.all_touched THEN with ELSE without)
        /\ without.value.cells \subseteq with.value.cells
        /\ Cardinality(with.value.cells) >= Cardinality(without.value.cells)

\* a box that holds no cell centre and touches four cells of the grid has been
\* rasterized with all_touched
C23_Witness ==
  /\ IsRasterize
  /\ call.all_touched
  /\ ~call.out.raised
  /\ Cardinality(call.out.value.cells) = 4
  /\ rasterize_geometry_to_mask(BoxGeometry(call.box), call.grid, FALSE).value.cells = {}

\* C27: rasterizing against a grid whose origin_corner is not "top_left"
\* raises a configuration error (ValueError); neither a mask nor a validation
\* response comes back, whatever the geometry rasterized.
C27_OtherCornerRaises ==
  /\ (IsRasterize /\ call.grid.origin_corner # "top_left")
       => call.out = Raised("ValueError")
  /\ ( /\ IsValidate
       /\ store.lake.origin_corner # "top_left"
       /\ WellFormed(call.geometry_obj)
       /\ call.geometry_crs \in KnownCrs )
       => call.out = Raised("ValueError")

\* a box has been validated on a grid with origin corner bottom_left
C27_Witness ==
  /\ IsValidate
  /\ store.lake.origin_corner = "bottom_left"
  /\ call.geometry_obj.coordinates.cells # {}
  /\ call.out = Raised("ValueError")

\* ---- blocked cells of a validation and the blocked mask
\* the cells set in the blocked mask computed afresh for the call's store and
\* dataset version
BlockedMaskCells ==
  LET payload == compute_blocked_mask(store, NoEntries, call.dataset_version_id).out.value
      set == CellsOf(decode_bitset_zlib_base64(payload.blocked_bitset_base64))
  IN  {c \in Cells(payload.rows, payload.cols) : c[1] * payload.cols + c[2] \in set}

CachedCall(c) == c.fn \in {"compute_blocked_mask", "compute_layer_stats"}
\* what the call c computes from the store's layers
Fresh(c) ==
  IF c.fn = "compute_layer_stats"
  THEN LayerStats(store, c.dataset_version_id, c.layer_kind)
  ELSE BlockedMaskResponse(store, c.dataset_version_id)
\* the entries of the cache the call c uses, before and after a step
CacheAfter(c) == IF c.fn = "compute_layer_stats" THEN cache'.stats ELSE cache'.blocked
OtherCacheKept(c) ==
  IF c.fn = "compute_layer_stats" THEN cache'.blocked = cache.blocked
  ELSE cache'.stats = cache.stats

C22_ServedVersionIsResolvedVersion ==
  (call.fn = "compute_blocked_mask" /\ ~call.out.raised) =>
    call.out.value.dataset_version_id =
      (IF call.dataset_version_id = None THEN store.lake.active_dv
       ELSE call.dataset_version_id)

\* C26: however concurrent compute_blocked_mask and compute_layer_stats calls
\* interleave, and whenever entries expire, every call returns the value a
\* fresh computation gives and none fails.
C26_EveryCallerGetsFreshValue ==
  \A r \in Requests :
    (pc[r] = "done" /\ CachedCall([fn |-> result[r].op])) =>
      /\ result[r].kind = "ok"
      /\ \E c \in CachedCalls :
           /\ c.fn = result[r].op
           /\ ~Compute(c).raised
           /\ result[r].out = Compute(c).value

\* ---- the ledger: rebuild, rejected selections, interleaved calls, ownership
\* C24: with adds and deletes executed one at a time, the occupied bitset
\* delete_subdivision rebuilds from the remaining subdivisions has the cells
\* of the previous occupied bitset with exactly the removed subdivision's
\* cells cleared, when it is staged and when it is committed.
C24_RebuildIsIncrementalRemoval ==
  [][ \A r \in Requests :
        /\ (DelFlushStep(r) /\ pc'[r] = "del_commit") =>
             LET removed == CHOOSE s \in sess[r].subs : s.id = sess[r].subdivision_id
             IN  /\ StoredCells(removed) \subseteq
                      OccupiedCells(sess[r].sim.occupied_bitset_base64)
                 /\ OccupiedCells(sess'[r].sim.occupied_bitset_base64) =
                      OccupiedCells(sess[r].sim.occupied_bitset_base64)
                        \ StoredCells(removed)
        /\ ( /\ pc[r] = "del_commit"
             /\ pc'[r] = "done"
             /\ result'[r] = Returned("delete_subdivision") ) =>
             LET removed == CHOOSE s \in subdivisions : s.id = sess[r].deleted
             IN  /\ subdivisions' = subdivisions \ {removed}
                 /\ OccupiedCells(sim'.occupied_bitset_base64) =
                      OccupiedCells(sim.occupied_bitset_base64) \ StoredCells(removed) ]_vars

\* a subdivision has been deleted while two others stay stored
C24_Witness ==
  \E r \in Requests :
    /\ result[r] = Returned("delete_subdivision")
    /\ Cardinality(subdivisions) = 2
    /\ sim.occupied_bitset_base64 # None
    /\ Cardinality(OccupiedCells(sim.occupied_bitset_base64)) >= 2

\* the bit positions of the cells that are water, inhabited or nodata on the
\* grid g in the dataset version dv
LedgerBlocked ==
  [g \in Grids, dv \in DatasetVersions |->
     LET layers == LakeStore([grid_rows |-> g[1], grid_cols |-> g[2],
                              active_dv |-> dv]).layers[dv]
     IN  {c[1] * g[2] + c[2] : c \in
            {c \in Cells(g[1], g[2]) :
               \/ layers.water.data[c] # 0
               \/ layers.inhabitants.data[c] > 0
               \/ layers.water.nodata # None
                    /\ layers.water.data[c] = layers.water.nodata.value
               \/ layers.inhabitants.nodata # None
                    /\ layers.inhabitants.data[c] = layers.inhabitants.nodata.value}}]
\* the bitset holds no blocked cell of the grid it was packed for
FreeOfBlocked(raw, dv) ==
  \A g \in Grids :
    Len(raw) = (g[1] * g[2] + 7) \div 8 => CellsOf(raw) \cap LedgerBlocked[g, dv] = {}
\* the geometry selects a cell of the lake grid and no blocked one
ClearSelection(geometry, dv) ==
  LET g == <<lake.grid_rows, lake.grid_cols>>
      sel == geometry \cap Cells(g[1], g[2])
  IN  /\ sel # {}
      /\ {c[1] * g[2] + c[2] : c \in sel} \cap LedgerBlocked[g, dv] = {}

\* C28: an add_subdivision that passes the guards with a selection that is
\* empty or holds a blocked cell returns (None, INVALID_SELECTION) and changes
\* nothing persisted, so every stored subdivision has at least one selected
\* cell and the occupied bitset holds no cell that is water, inhabited or
\* nodata in the simulation's dataset version (no row is stored and no
\* occupied bitset is written for which this fails; none exists at the start).
C28_InvalidSelectionChangesNothing ==
  [][ /\ \A r \in Requests, dv \in DatasetVersions \cup {None}, geometry \in Geometries :
          (/\ pc[r] = "idle" /\ pc'[r] # "idle" /\ sim # None
           /\ AddGuards(sim, sim.user_id, dv) = NoResult
           /\ ~ClearSelection(geometry, sim.dataset_version_id)
           /\ AddLoad(r, sim.user_id, dv, geometry))
            => /\ result'[r] = ReturnedError("add_subdivision", "INVALID_SELECTION")
               /\ UNCHANGED db
      /\ subdivisions' # subdivisions =>
           \A s \in subdivisions' \ subdivisions :
             /\ s.selected_cells >= 1
             /\ s.selected_cells = Cardinality(StoredCells(s))
             /\ FreeOfBlocked(RawOf(s), sim'.dataset_version_id)
      /\ (sim' # sim /\ sim'.occupied_bitset_base64 # None) =>
           FreeOfBlocked(_decode_bitset(sim'.occupied_bitset_base64),
                         sim'.dataset_version_id) ]_vars

\* an add has been turned down with INVALID_SELECTION while a subdivision is
\* stored and occupied is set
C28_Witness ==
  \E r \in Requests :
    /\ result[r] = ReturnedError("add_subdivision", "INVALID_SELECTION")
    /\ subdivisions # {}
    /\ sim.occupied_bitset_base64 # None

\* the simulation row agrees with the stored subdivisions: occupied is their
\* bitwise OR (absent when none is stored) and subdivision_count their number
OccupiedAndCountAgree ==
  /\ C2_OccupiedIsUnionOfStored
  /\ C6_CountMatchesStored
\* request r is about to commit a delete whose subdivision list was read before
\* an add committed, resp. an add whose simulation was read before a delete
\* committed
DeleteBesideAdd(r) ==
  /\ pc[r] = "del_commit"
  /\ subdivisions \ sess[r].subs # {}
AddBesideDelete(r) ==
  /\ pc[r] = "add_commit"
  /\ sim.subdivision_count < sess[r].loaded.subdivision_count

\* C29: when a delete_subdivision and an add_subdivision on the same
\* simulation interleave, after both have committed the occupied bitset is
\* the OR of the stored subdivisions' bitsets and subdivision_count is their
\* number: the second of the two commits, taken from a state where both
\* agree, leaves them in agreement.
C29_InterleavedDeleteAddAgree ==
  [][ \A r \in Requests :
        ( /\ DeleteBesideAdd(r) \/ AddBesideDelete(r)
          /\ pc'[r] = "done"
          /\ result'[r].kind = "ok"
          /\ OccupiedAndCountAgree )
        => OccupiedAndCountAgree' ]_vars

\* the step begins a call of add_subdivision, delete_subdivision or create_run
\* made with user_id in request r
CalledBy(r, user_id) ==
  \/ \E dv \in DatasetVersions \cup {None}, geometry \in Geometries :
       AddLoad(r, user_id, dv, geometry)
  \/ \E i \in {s.id : s \in subdivisions} \cup {UnknownId} : DelLoad(r, user_id, i)
  \/ CreateRun(r, user_id)
Forbidden(r) ==
  /\ result[r].kind = "raised"
  /\ result[r].code = "FORBIDDEN"
  /\ result[r].op \in {"add_subdivision", "delete_subdivision", "create_run"}

\* C30: add_subdivision, delete_subdivision and create_run called with a
\* user_id other than the owner's raise FORBIDDEN whatever the other
\* arguments and the state of the simulation are, and change nothing; every
\* request that gets past its first step was made with the owner's user_id,
\* and the simulation row, the subdivisions and the runs change only in a step
\* of such a request or in a create_run of the owner.
C30_ForbiddenFirst ==
  [][ /\ \A r \in Requests, u \in Users :
          (/\ pc[r] = "idle" /\ pc'[r] # "idle" /\ sim # None
           /\ u # sim.user_id
           /\ CalledBy(r, u))
            => /\ Forbidden(r)'
               /\ UNCHANGED db
      /\ \A r \in Requests :
          (pc[r] = "idle" /\ InFlight(r)' /\ sim # None) => CalledBy(r, sim.user_id)
      /\ (sim # None /\ <<sim, subdivisions, runs>>' # <<sim, subdivisions, runs>>) =>
           \E r \in Requests :
             \/ InFlight(r) /\ pc'[r] = "done"
             \/ pc[r] = "idle" /\ CreateRun(r, sim.user_id) ]_vars

\* calls of the three operations by another user have been turned down where
\* another check would have fired: an add on a full simulation, a delete of
\* an id that is not stored
C30_Witness ==
  \E r \in Requests :
    /\ Forbidden(r)
    /\ sim.subdivision_count >= MAX_SUBDIVISIONS
    /\ result[r].op = "add_subdivision"

====
